---- MODULE Spec2Model ----
(***************************************************************************)
(* A model of the finsavvy backend: the AI response pipeline of            *)
(* ai_service.py with the per-user WebSocket fan-out of                    *)
(* websocket_manager.py, the quiz scoring of course_data.py, the score     *)
(* store of game_data.py, the market data cache and the quote fetching of  *)
(* market_data.py, the consultation and chat routes, the keyword tutor of  *)
(* ai_tutor.py and the notes and study groups of collaboration.py.         *)
(***************************************************************************)
EXTENDS Integers, Sequences, FiniteSets, TLC

VARIABLES
    api_key,              \* AIService.api_key
    fallback_loaded,      \* AIService.fallback_model and fallback_tokenizer are set
    conversation_history, \* AIService.conversation_history: user id -> list of entries
    last_call,            \* the last generate_response call: inputs, tiers invoked, result
    calls,                \* number of generate_response calls made
    tasks,                \* the broadcast tasks created by asyncio.create_task, in order
    active_connections,   \* WebSocketManager.active_connections: user id -> set of sockets
    accepted,             \* the sockets whose accept() has been called
    sent_log,             \* every send_json call made: socket, message, users it was registered under
    user_progress,        \* CourseLibrary.user_progress
    last_quiz,            \* the last submit_quiz call: inputs and outcome
    game_scores,          \* game_data.game_scores: user id -> list of scores
    all_saved,            \* history: every score ever passed to save_game_score, per user
    stocks_cache,         \* MarketDataService.stocks_cache
    last_update,          \* MarketDataService.last_update
    now,                  \* the wall clock, in minutes
    pc,                   \* per get_market_data call: where the coroutine stands
    fetches,              \* history: the upstream fetch rounds started, with their time
    last_market,          \* the last step of a get_market_data call
    stock_data,           \* the results asyncio.gather has collected in the current fetch round
    market_summary,       \* the outcome of the summary computed over stock_data
    last_fetch,           \* the last fetch_stock_data call: inputs and result
    consultations,        \* routes/consultation.py consultations: id -> record
    returned,             \* history: consultation id returned -> the data submitted with it
    uuids,                \* number of uuid4 values drawn so far
    last_consult,         \* the last consultation request: inputs and response
    last_tutor,           \* the last AITutor.get_response call: inputs and result
    last_chat,            \* the last POST /chat/tutor request: inputs and response
    study_groups,         \* CollaborationManager.study_groups: group id -> group
    groups_file,          \* the content of study_groups.json
    last_group,           \* the last study group operation: inputs and result
    notes,                \* CollaborationManager.notes
    notes_file,           \* the content of notes.json
    last_note             \* the last save_note call: inputs and result

vars == <<api_key, fallback_loaded, conversation_history, last_call, calls, tasks,
          active_connections, accepted, sent_log, user_progress, last_quiz,
          game_scores, all_saved, stocks_cache, last_update, now, pc, fetches,
          last_market, stock_data, market_summary, last_fetch, consultations,
          returned, uuids, last_consult, last_tutor, last_chat, study_groups,
          groups_file, last_group, notes, notes_file, last_note>>

aiVars     == <<api_key, fallback_loaded, conversation_history, last_call, calls, tasks>>
wsVars     == <<active_connections, accepted, sent_log>>
quizVars   == <<user_progress, last_quiz>>
gameVars   == <<game_scores, all_saved>>
marketVars == <<stocks_cache, last_update, now, pc, fetches, last_market>>
fetchVars   == <<stock_data, market_summary, last_fetch>>
consultVars == <<consultations, returned, last_consult>>
tutorVars   == <<last_tutor>>
routeVars   == <<last_chat>>
groupVars   == <<study_groups, groups_file, last_group>>
noteVars    == <<notes, notes_file, last_note>>
\* the state of the modules that the pipeline, the stores and the cache leave alone
laterVars   == <<fetchVars, consultVars, uuids, tutorVars, routeVars, groupVars, noteVars>>

None == "None"

\* the value of last_call before the first call
NoCall == [user |-> None]

\* ---------------------------------------------------------------- bounds
MaxCalls == 3
MaxTasks == 1
MaxSaves == 12
MaxBoardSaves == 2
MaxTime == 12
MaxSymbols == 2
MaxConsultations == 2
MaxGroups == 2
MaxDiscussions == 1
MaxNotes == 2

UserIds   == {"u1", "u2"}
Questions == {"q1", "q2"}
Contents  == {"a1"}
Sockets   == {"ws1", "ws2", "ws3"}

\* ------------------------------------------------------- generic helpers
\* a Python dict as a function whose DOMAIN is the set of keys
EmptyDict == [k \in {} |-> None]

DictSet(d, k, v) == [x \in (DOMAIN d) \cup {k} |-> IF x = k THEN v ELSE d[x]]

DictDel(d, k) == [x \in (DOMAIN d) \ {k} |-> d[x]]

\* Python's s[-n:]
LastN(s, n) == IF Len(s) <= n THEN s ELSE SubSeq(s, Len(s) - n + 1, Len(s))

\* Python's s[:n]
FirstN(s, n) == IF Len(s) <= n THEN s ELSE SubSeq(s, 1, n)

\* ------------------------------------------------------------ ai_service
PlaceholderKey == "your-default-api-key-here"

HistoryWindow == 5

SimulatedMessage ==
    "This is a simulated response for testing. Please configure a valid API key for production use."

ErrorPrefix == "An error occurred while processing your request: "

\* the chat history handed to Gemini's start_chat: the last five entries
ChatHistory(history) ==
    [i \in 1..Len(LastN(history, HistoryWindow)) |->
        [role  |-> IF LastN(history, HistoryWindow)[i].type = "user" THEN "user" ELSE "model",
         parts |-> LastN(history, HistoryWindow)[i].content]]

\* the Gemini tier: the remote model is called only with a configured key,
\* and yields content only when the call returns a response with a text
GeminiInvoked == api_key # PlaceholderKey

GeminiOk(gem) == GeminiInvoked /\ gem.outcome = "ok"

\* a pipeline that runs the fallback model whatever the Gemini attempt gave
FallbackInvoked_Always(gem) == fallback_loaded

\* the HuggingFace tier, entered from the handler of a failed Gemini attempt
FallbackInvoked(gem) == ~GeminiOk(gem) /\ fallback_loaded

FallbackOk(gem, fb) == FallbackInvoked(gem) /\ fb.outcome = "ok"

SimulatedUsed(gem, fb) == ~GeminiOk(gem) /\ ~FallbackOk(gem, fb)

\* the tiers a call invokes, in the order it invokes them
TiersInvoked(gem, fb) ==
    (IF GeminiInvoked THEN <<"Gemini">> ELSE <<>>)
    \o (IF FallbackInvoked(gem) THEN <<"HuggingFace">> ELSE <<>>)
    \o (IF SimulatedUsed(gem, fb) THEN <<"Simulated">> ELSE <<>>)

_generate_simulated_response ==
    [status |-> "success", message |-> SimulatedMessage, timestamp |-> now]

\* the list a call appends to: created empty when the user has none
HistoryOf(u) ==
    IF u \in DOMAIN conversation_history THEN conversation_history[u] ELSE <<>>

\* an update that appends the exchange to every user's list
AppendExchange_AllUsers(u, question, message) ==
    [v \in (DOMAIN conversation_history) \cup {u} |->
        Append(Append(HistoryOf(v), question), message)]

\* an update that replaces the user's list by the latest exchange
AppendExchange_Overwrite(u, question, message) ==
    DictSet(conversation_history, u, <<question, message>>)

\* the history after the question and the answer are appended to the list of u
AppendExchange(u, question, message) ==
    DictSet(conversation_history, u, Append(Append(HistoryOf(u), question), message))

NewTask(u, content, model_used) ==
    [user |-> u, type |-> "chat_response", content |-> content, model |-> model_used,
     timestamp |-> now, state |-> "pending", cur |-> None, size |-> 0,
     visited |-> {}, disconnected |-> {}, gone |-> FALSE, registered |-> {}]

\* the exception the body raises after the tiers, if any: create_task raises
\* RuntimeError when no event loop is running
BodyException(gem, fb, loop) ==
    IF ~SimulatedUsed(gem, fb) /\ ~loop THEN "RuntimeError: no running event loop" ELSE None

\* an outer handler that lets the exception through
CaughtByOuterHandler_Nothing(exc) == FALSE

\* the outer handler is "except Exception"
CaughtByOuterHandler(exc) == exc # None

\* generate_response(user_id, module_content, question); gem and fb are what
\* the remote model and the local model do when called, loop whether an
\* event loop is running when the broadcast is scheduled
generate_response(u, q, gem, fb, loop) ==
    LET content    == IF GeminiOk(gem) THEN gem.text ELSE fb.text
        model_used == IF GeminiOk(gem) THEN "Gemini" ELSE "HuggingFace"
        message    == [type |-> "assistant", content |-> content,
                       timestamp |-> now, model |-> model_used]
        question   == [type |-> "user", content |-> q, timestamp |-> now]
        exc        == BodyException(gem, fb, loop)
        result     == IF SimulatedUsed(gem, fb) THEN _generate_simulated_response
                      ELSE IF exc = None
                      THEN [status |-> "success", message |-> content,
                            model |-> model_used, timestamp |-> now]
                      ELSE IF CaughtByOuterHandler(exc)
                      THEN [status |-> "error", message |-> ErrorPrefix \o exc,
                            timestamp |-> now]
                      ELSE None
    IN  /\ calls < MaxCalls
        /\ calls' = calls + 1
        /\ conversation_history' =
              IF SimulatedUsed(gem, fb)
              THEN DictSet(conversation_history, u, HistoryOf(u))
              ELSE AppendExchange(u, question, message)
        /\ tasks' = IF ~SimulatedUsed(gem, fb) /\ loop
                    THEN Append(tasks, NewTask(u, content, model_used))
                    ELSE tasks
        /\ last_call' = [user |-> u, question |-> q, gemini |-> gem, fallback |-> fb,
                         loop |-> loop,
                         prompt |-> IF GeminiInvoked THEN ChatHistory(HistoryOf(u)) ELSE <<>>,
                         invoked |-> TiersInvoked(gem, fb),
                         raised |-> exc # None /\ ~CaughtByOuterHandler(exc),
                         result |-> result]
        /\ UNCHANGED <<api_key, fallback_loaded>>

\* what a model call can do: return content, return something without a
\* text, or raise
GeminiOutcomes ==
    [outcome : {"ok"}, text : Contents] \cup [outcome : {"invalid", "raise"}, text : {None}]

FallbackOutcomes ==
    [outcome : {"ok"}, text : Contents] \cup [outcome : {"raise"}, text : {None}]

\* ----------------------------------------------------- websocket_manager
\* connect(websocket, user_id): accept, then register
connect(ws, u) ==
    /\ ws \notin accepted
    /\ accepted' = accepted \cup {ws}
    /\ active_connections' =
          DictSet(active_connections, u,
                  (IF u \in DOMAIN active_connections THEN active_connections[u] ELSE {})
                  \cup {ws})
    /\ UNCHANGED <<sent_log, tasks>>

\* the registry after disconnect(websocket, user_id)
Disconnected(conns, ws, u) ==
    IF u \in DOMAIN conns
    THEN IF conns[u] \ {ws} = {} THEN DictDel(conns, u)
         ELSE [conns EXCEPT ![u] = conns[u] \ {ws}]
    ELSE conns

RECURSIVE DisconnectAll(_, _, _)
DisconnectAll(conns, wss, u) ==
    IF wss = {} THEN conns
    ELSE LET ws == CHOOSE w \in wss : TRUE
         IN  DisconnectAll(Disconnected(conns, ws, u), wss \ {ws}, u)

\* a task iterating the set of u sees the set object dropped from the registry
MarkGone(ts, conns, u, except) ==
    [i \in 1..Len(ts) |->
        IF i # except /\ ts[i].user = u /\ ts[i].state = "sending" /\ u \notin DOMAIN conns
        THEN [ts[i] EXCEPT !.gone = TRUE] ELSE ts[i]]

disconnect(ws, u) ==
    /\ ws \in accepted
    /\ active_connections' = Disconnected(active_connections, ws, u)
    /\ tasks' = MarkGone(tasks, active_connections', u, 0)
    /\ UNCHANGED <<accepted, sent_log>>

SendRecord(i, ws) ==
    [socket |-> ws, task |-> i, type |-> tasks[i].type,
     content |-> tasks[i].content, model |-> tasks[i].model,
     registered_under |-> {v \in DOMAIN active_connections : ws \in active_connections[v]}]

\* broadcast_to_user up to its first await: the membership test, the start
\* of the iteration and the first send_json call
BroadcastStart(i) ==
    /\ i \in 1..Len(tasks)
    /\ tasks[i].state = "pending"
    /\ LET u == tasks[i].user
       IN  IF u \notin DOMAIN active_connections
           THEN /\ tasks' = [tasks EXCEPT ![i].state = "done"]
                /\ UNCHANGED sent_log
           ELSE \E ws \in active_connections[u] :
                /\ tasks' = [tasks EXCEPT ![i].state = "sending", ![i].cur = ws,
                                          ![i].size = Cardinality(active_connections[u]),
                                          ![i].visited = {ws},
                                          ![i].registered = active_connections[u]]
                /\ sent_log' = sent_log \cup {SendRecord(i, ws)}
    /\ UNCHANGED <<active_connections, accepted>>

\* broadcast_to_user from the return of one send_json to the next await or
\* to its end; ok is whether the send returned or raised.  The set iterator
\* raises RuntimeError when the set's size differs from the size at the start
\* of the iteration; when the set was changed at equal size the iterator may
\* stop early
BroadcastResume(i, ok) ==
    /\ i \in 1..Len(tasks)
    /\ tasks[i].state = "sending"
    /\ LET u      == tasks[i].user
           t      == tasks[i]
           failed == IF ok THEN t.disconnected ELSE t.disconnected \cup {t.cur}
           cur    == IF u \in DOMAIN active_connections THEN active_connections[u] ELSE {}
           rest   == cur \ t.visited
           finish == /\ active_connections' = DisconnectAll(active_connections, failed, u)
                     /\ tasks' = MarkGone([tasks EXCEPT ![i].state = "done", ![i].cur = None,
                                                        ![i].disconnected = failed],
                                          active_connections', u, i)
                     /\ UNCHANGED sent_log
       IN  IF t.gone \/ Cardinality(cur) # t.size
           THEN /\ tasks' = [tasks EXCEPT ![i].state = "crashed", ![i].cur = None,
                                          ![i].disconnected = failed]
                /\ UNCHANGED <<active_connections, sent_log>>
           ELSE \/ /\ rest = {} \/ cur # t.registered
                   /\ finish
                \/ \E ws \in rest :
                   /\ tasks' = [tasks EXCEPT ![i].cur = ws, ![i].disconnected = failed,
                                             ![i].visited = t.visited \cup {ws}]
                   /\ sent_log' = sent_log \cup {SendRecord(i, ws)}
                   /\ UNCHANGED active_connections
    /\ UNCHANGED accepted

\* ----------------------------------------------------------- course_data
Q(id, correct) == [id |-> id, correct_answer |-> correct]

M(id, questions) == [id |-> id, quiz |-> [questions |-> questions]]

\* CourseLibrary.courses: course key -> the course's modules with their quizzes
courses ==
    [c \in {"fin101", "fin201", "python", "javascript", "react"} |->
        CASE c = "fin101"     -> <<M("fin101-m1", <<Q("q1", 1), Q("q2", 0)>>)>>
          [] c = "fin201"     -> <<M("fin201-m1", <<Q("q1", 1), Q("q2", 2)>>)>>
          [] c = "python"     -> <<M("py-mod-1", <<Q("q1", 1), Q("q2", 1)>>),
                                   M("py-mod-2", <<Q("q1", 0), Q("q2", 2)>>)>>
          [] c = "javascript" -> <<M("js-mod-1", <<Q("q1", 2), Q("q2", 1)>>),
                                   M("js-mod-2", <<Q("q1", 1), Q("q2", 0)>>)>>
          [] c = "react"      -> <<M("react-mod-1", <<Q("q1", 1), Q("q2", 2)>>),
                                   M("react-mod-2", <<Q("q1", 1), Q("q2", 0)>>)>>]

PassThreshold == 70

\* get_module: the first module of the course with the id, or the 404 raised
get_module(course_id, module_id) ==
    IF course_id \notin DOMAIN courses THEN [raised |-> "404: Course not found"]
    ELSE LET ms == courses[course_id]
             is == {i \in 1..Len(ms) : ms[i].id = module_id}
         IN  IF is = {} THEN [raised |-> "404: Module not found"]
             ELSE [raised |-> None, module |-> ms[CHOOSE i \in is : \A j \in is : i <= j]]

\* a scoring loop that counts every answered question
RECURSIVE CountCorrect_Answered(_, _)
CountCorrect_Answered(questions, answers) ==
    IF questions = <<>> THEN 0
    ELSE (IF Head(questions).id \in DOMAIN answers THEN 1 ELSE 0)
         + CountCorrect_Answered(Tail(questions), answers)

\* the scoring loop over the quiz's questions
RECURSIVE CountCorrect(_, _)
CountCorrect(questions, answers) ==
    IF questions = <<>> THEN 0
    ELSE (IF Head(questions).id \in DOMAIN answers
             /\ answers[Head(questions).id] = Head(questions).correct_answer
          THEN 1 ELSE 0)
         + CountCorrect(Tail(questions), answers)

\* (correct_answers / total_questions) * 100; every quiz of the library has
\* two questions, for which the quotient is exact
Score(correct_answers, total_questions) == (correct_answers * 100) \div total_questions

Max(a, b) == IF a >= b THEN a ELSE b

submit_quiz(course_id, module_id, user_id, answers) ==
    LET found == get_module(course_id, module_id)
    IN  IF found.raised # None
        THEN /\ last_quiz' = [course_id |-> course_id, module_id |-> module_id,
                              user_id |-> user_id, answers |-> answers,
                              raised |-> found.raised]
             /\ UNCHANGED user_progress
        ELSE LET questions       == found.module.quiz.questions
                 total_questions == Len(questions)
                 correct_answers == CountCorrect(questions, answers)
                 score           == Score(correct_answers, total_questions)
                 passed          == score >= PassThreshold
                 mine            == IF user_id \in DOMAIN user_progress
                                    THEN user_progress[user_id] ELSE EmptyDict
                 entry           == IF course_id \in DOMAIN mine THEN mine[course_id]
                                    ELSE [completed |-> FALSE, score |-> 0, passed |-> FALSE]
             IN  /\ user_progress' =
                       DictSet(user_progress, user_id,
                               DictSet(mine, course_id,
                                       [entry EXCEPT !.score = Max(entry.score, score),
                                                     !.passed = entry.passed \/ passed]))
                 /\ last_quiz' = [course_id |-> course_id, module_id |-> module_id,
                                  user_id |-> user_id, answers |-> answers,
                                  raised |-> None,
                                  result |-> [score |-> score,
                                              correct_answers |-> correct_answers,
                                              total_questions |-> total_questions,
                                              passed |-> passed]]

\* ------------------------------------------------------------- game_data
TopScores == 10

\* a stored score; its id and timestamp play no part in any ordering
Entry(score, completion_time) == [score |-> score, completion_time |-> completion_time]

\* a sort key that forgets to negate the completion time
Key_TimeAscending(e) == <<e.score, e.completion_time>>

\* the sort key (score, -completion_time) of save_game_score and get_leaderboard
Key(e) == <<e.score, 0 - e.completion_time>>

\* Python's tuple comparison a < b on two keys
KeyLess(a, b) == a[1] < b[1] \/ (a[1] = b[1] /\ a[2] < b[2])

\* sorted(xs, key=Key, reverse=True): descending by key, entries of equal key
\* keep their order
RECURSIVE SortedDesc(_)
SortedDesc(xs) ==
    IF xs = <<>> THEN <<>>
    ELSE LET front == SortedDesc(SubSeq(xs, 1, Len(xs) - 1))
             x     == xs[Len(xs)]
             ahead == {i \in 1..Len(front) : ~KeyLess(Key(front[i]), Key(x))}
             k     == Cardinality(ahead)
         IN  SubSeq(front, 1, k) \o <<x>> \o SubSeq(front, k + 1, Len(front))

\* save_game_score(user_id, score, completion_time)
save_game_score(user_id, score, completion_time) ==
    LET mine == IF user_id \in DOMAIN game_scores THEN game_scores[user_id] ELSE <<>>
    IN  game_scores' =
            DictSet(game_scores, user_id,
                    FirstN(SortedDesc(Append(mine, Entry(score, completion_time))), TopScores))

\* a lookup that drops the first stored score
get_user_scores_Tail(user_id) ==
    IF user_id \in DOMAIN game_scores /\ game_scores[user_id] # <<>>
    THEN Tail(game_scores[user_id]) ELSE <<>>

\* get_user_scores(user_id)
get_user_scores(user_id) ==
    IF user_id \in DOMAIN game_scores THEN game_scores[user_id] ELSE <<>>

\* a selection that takes the last stored score of the player
BestOf_Last(scores) == scores[Len(scores)]

\* max(scores, key=Key): the first entry no other entry beats
BestOf(scores) ==
    scores[CHOOSE i \in 1..Len(scores) :
              /\ \A j \in 1..Len(scores) : ~KeyLess(Key(scores[i]), Key(scores[j]))
              /\ \A j \in 1..(i - 1) : KeyLess(Key(scores[j]), Key(scores[i]))]

\* the dictionary's items in insertion order: players are numbered in the
\* order of their first save
RECURSIVE BestScores(_)
BestScores(n) ==
    IF n = 0 THEN <<>>
    ELSE IF game_scores[n] # <<>>
         THEN Append(BestScores(n - 1),
                     [user_id |-> n, score |-> BestOf(game_scores[n]).score,
                      completion_time |-> BestOf(game_scores[n]).completion_time])
         ELSE BestScores(n - 1)

\* get_leaderboard()
get_leaderboard == FirstN(SortedDesc(BestScores(Cardinality(DOMAIN game_scores))), TopScores)

\* the history of everything saved: per player, how often each score was saved
Recorded(user_id, e) ==
    LET mine == IF user_id \in DOMAIN all_saved THEN all_saved[user_id] ELSE EmptyDict
    IN  DictSet(all_saved, user_id,
                DictSet(mine, e, IF e \in DOMAIN mine THEN mine[e] + 1 ELSE 1))

RECURSIVE SumOver(_, _)
SumOver(f, keys) ==
    IF keys = {} THEN 0
    ELSE LET k == CHOOSE x \in keys : TRUE IN f[k] + SumOver(f, keys \ {k})

\* the number of scores saved by a player, and by all players
SavedBy(user_id) ==
    IF user_id \in DOMAIN all_saved
    THEN SumOver(all_saved[user_id], DOMAIN all_saved[user_id]) ELSE 0

TotalSaved == SumOver([u \in DOMAIN all_saved |-> SavedBy(u)], DOMAIN all_saved)

\* ----------------------------------------------------------- market_data
\* update_interval, in minutes
UpdateInterval == 5

Callers == {"r1", "r2"}

\* what the upstream quotes can be when a fetch round completes
Quotes == {"x", "y"}

\* a test that already fires when the last update is exactly update_interval old
CacheStale_AtInterval == last_update = <<>> \/ now - last_update[1] >= UpdateInterval

\* the test that opens get_market_data: no update yet, or the last one is
\* more than update_interval old
CacheStale == last_update = <<>> \/ now - last_update[1] > UpdateInterval

\* get_market_data up to its await: a call that finds the cache stale starts
\* the fetch round and waits for it, any other call returns the cache
MarketCallStart(p) ==
    /\ pc[p] = "idle"
    /\ IF CacheStale
       THEN /\ pc' = [pc EXCEPT ![p] = "fetching"]
            /\ fetches' = Append(fetches, [caller |-> p, at |-> now])
            /\ last_market' = [caller |-> p, step |-> "fetch", at |-> now]
       ELSE /\ last_market' = [caller |-> p, step |-> "return", at |-> now,
                               fetched |-> FALSE, value |-> stocks_cache]
            /\ UNCHANGED <<pc, fetches>>
    /\ UNCHANGED <<stocks_cache, last_update, now>>

\* a completion that stamps the cache with the time the round was started
MarketCallFinish_StartTime(p, quotes) ==
    LET started == fetches[CHOOSE i \in 1..Len(fetches) :
                              /\ fetches[i].caller = p
                              /\ \A j \in 1..Len(fetches) : fetches[j].caller = p => j <= i].at
    IN  /\ pc[p] = "fetching"
        /\ stocks_cache' = [stocks |-> quotes, timestamp |-> started]
        /\ last_update' = <<started>>
        /\ pc' = [pc EXCEPT ![p] = "idle"]
        /\ last_market' = [caller |-> p, step |-> "return", at |-> now,
                           fetched |-> TRUE, value |-> stocks_cache']
        /\ UNCHANGED <<fetches, now>>

\* get_market_data from the completion of the fetch round: the cache and
\* last_update are replaced and the new cache is returned
MarketCallFinish(p, quotes) ==
    /\ pc[p] = "fetching"
    /\ stocks_cache' = [stocks |-> quotes, timestamp |-> now]
    /\ last_update' = <<now>>
    /\ pc' = [pc EXCEPT ![p] = "idle"]
    /\ last_market' = [caller |-> p, step |-> "return", at |-> now,
                       fetched |-> TRUE, value |-> stocks_cache']
    /\ UNCHANGED <<fetches, now>>

\* a minute passes
Tick ==
    /\ now < MaxTime
    /\ now' = now + 1
    /\ UNCHANGED <<stocks_cache, last_update, pc, fetches, last_market>>

\* the symbols get_market_data tracks, in the order it gathers them
TrackedSymbols == <<"AAPL", "MSFT", "GOOGL", "AMZN", "META", "NVDA", "TSLA", "JPM", "V", "WMT">>

\* the texts a quote field can hold, and the number float() or int() reads
\* from a text; a text outside the table makes the conversion raise ValueError
NumberOf == ("7" :> 7) @@ ("0" :> 0)

\* str.strip("%") on the texts above
StripPercent(text) == IF text = "7%" THEN "7" ELSE text

\* dict.get(key, default) on a quote, wrapped so that a miss is visible
QuoteGet(quote, key, default) == IF key \in DOMAIN quote THEN quote[key] ELSE default

\* float(quote.get(key, 0)) and int(quote.get(key, 0)): the default 0 is a
\* number already, a text is converted
Converts(quote, key) == key \in DOMAIN quote => quote[key] \in DOMAIN NumberOf
Converted(quote, key) == IF key \in DOMAIN quote THEN NumberOf[quote[key]] ELSE 0

\* float(quote.get("10. change percent", "0").strip("%"))
PercentConverts(quote) == StripPercent(QuoteGet(quote, "10. change percent", "0")) \in DOMAIN NumberOf
PercentConverted(quote) == NumberOf[StripPercent(QuoteGet(quote, "10. change percent", "0"))]

\* base_prices of get_simulated_stock_data, in cents
BasePrices ==
    [AAPL |-> 15025, MSFT |-> 31075, GOOGL |-> 275020, AMZN |-> 330050, META |-> 33025,
     NVDA |-> 42075, TSLA |-> 85050, JPM |-> 14030, V |-> 23045, WMT |-> 14560]
DefaultBasePrice == 10000

CompanyNames ==
    [AAPL |-> "Apple Inc.", MSFT |-> "Microsoft Corporation", GOOGL |-> "Alphabet Inc.",
     AMZN |-> "Amazon.com Inc.", META |-> "Meta Platforms Inc.", NVDA |-> "NVIDIA Corporation",
     TSLA |-> "Tesla Inc.", JPM |-> "JPMorgan Chase & Co.", V |-> "Visa Inc.",
     WMT |-> "Walmart Inc."]

get_company_name(symbol) ==
    IF symbol \in DOMAIN CompanyNames THEN CompanyNames[symbol] ELSE symbol

\* get_simulated_stock_data: rnd holds the values the random module hands out
get_simulated_stock_data(symbol, rnd) ==
    LET base_price == IF symbol \in DOMAIN BasePrices THEN BasePrices[symbol] ELSE DefaultBasePrice
        change_percent == rnd.change_percent
        change == (base_price * change_percent) \div 100
    IN  [symbol |-> symbol,
         name |-> get_company_name(symbol),
         price |-> base_price + change,
         change |-> change_percent,
         volume |-> rnd.volume,
         chart_data |-> [i \in 1..10 |-> base_price + rnd.chart]]

\* the request of fetch_stock_data raises inside the try block: the session
\* or the GET fails, response.json() fails, or a quote field does not convert
FetchRaises(reply) ==
    \/ reply.raises
    \/ /\ reply.status = 200
       /\ \/ reply.json = <<>>
          \/ /\ "Global Quote" \in DOMAIN reply.json[1]
             /\ LET quote == reply.json[1]["Global Quote"]
                IN  \/ ~Converts(quote, "05. price")
                    \/ ~Converts(quote, "09. change")
                    \/ ~PercentConverts(quote)
                    \/ ~Converts(quote, "06. volume")

\* the try block of fetch_stock_data returns the parsed quote
QuoteReturned(reply) ==
    /\ ~FetchRaises(reply)
    /\ reply.status = 200
    /\ "Global Quote" \in DOMAIN reply.json[1]

\* a fetch_stock_data that ends after its except clause, without the final return
fetch_stock_data_NoFallback(symbol, reply, rnd) ==
    IF QuoteReturned(reply)
    THEN LET quote == reply.json[1]["Global Quote"]
         IN  <<[symbol |-> symbol,
                price |-> Converted(quote, "05. price"),
                change |-> Converted(quote, "09. change"),
                change_percent |-> PercentConverted(quote),
                volume |-> Converted(quote, "06. volume")]>>
    ELSE <<>>

\* fetch_stock_data: the value returned, <<record>>, or <<>> for None
fetch_stock_data(symbol, reply, rnd) ==
    IF QuoteReturned(reply)
    THEN LET quote == reply.json[1]["Global Quote"]
         IN  <<[symbol |-> symbol,
                price |-> Converted(quote, "05. price"),
                change |-> Converted(quote, "09. change"),
                change_percent |-> PercentConverted(quote),
                volume |-> Converted(quote, "06. volume")]>>
    ELSE <<get_simulated_stock_data(symbol, rnd)>>

\* one fetch_stock_data of the round completes: asyncio.gather keeps the
\* results in the order of the symbols
GatherNext(symbols, reply, rnd) ==
    /\ Len(stock_data) < Len(symbols)
    /\ LET symbol == symbols[Len(stock_data) + 1]
           result == fetch_stock_data(symbol, reply, rnd)
       IN  /\ stock_data' = Append(stock_data, result)
           /\ last_fetch' = [symbol |-> symbol, reply |-> reply, rnd |-> rnd, result |-> result]
    /\ UNCHANGED market_summary

\* stock["change"] and stock["volume"] can be read from every gathered result
Subscriptable(data) ==
    \A i \in 1..Len(data) :
        /\ data[i] # <<>>
        /\ {"change", "volume"} \subseteq DOMAIN data[i][1]

Advancing(data) == Cardinality({i \in 1..Len(data) : data[i][1].change > 0})

RECURSIVE TotalVolume(_)
TotalVolume(data) ==
    IF data = <<>> THEN 0 ELSE data[1][1].volume + TotalVolume(Tail(data))

\* the summary get_market_data computes once the round is gathered; the round
\* then ends and the next one starts from nothing
Summarise(symbols) ==
    /\ Len(stock_data) = Len(symbols)
    /\ market_summary' =
          IF Subscriptable(stock_data)
          THEN [raised |-> FALSE,
                stocks |-> stock_data,
                total_volume |-> TotalVolume(stock_data),
                advancing_stocks |-> Advancing(stock_data),
                declining_stocks |-> Len(stock_data) - Advancing(stock_data)]
          ELSE [raised |-> TRUE, stocks |-> stock_data]
    /\ stock_data' = <<>>
    /\ UNCHANGED last_fetch

\* ---------------------------------------------------- routes/consultation
\* str.lower() on the topics a request can carry
Lower ==
    ("Investment plan" :> "investment plan") @@ ("my portfolio" :> "my portfolio")
    @@ ("Budget" :> "budget") @@ ("saving and investment" :> "saving and investment")
    @@ ("taxes" :> "taxes") @@ ("" :> "")

\* the keywords of schedule_consultation a lowered topic contains
KeywordsIn ==
    ("investment plan" :> {"investment"}) @@ ("my portfolio" :> {"portfolio"})
    @@ ("budget" :> {"budget"}) @@ ("saving and investment" :> {"saving", "investment"})
    @@ ("taxes" :> {}) @@ ("" :> {})

\* dict.get(key) and dict.get(key, default)
Get(data, key) == IF key \in DOMAIN data THEN data[key] ELSE None
GetOr(data, key, default) == IF key \in DOMAIN data THEN data[key] ELSE default

\* the kind of advice chosen from the lowered topic
AdviceType(topic) ==
    IF "investment" \in KeywordsIn[topic] \/ "portfolio" \in KeywordsIn[topic] THEN "investment"
    ELSE IF "budget" \in KeywordsIn[topic] \/ "saving" \in KeywordsIn[topic] THEN "budget"
    ELSE "general"

\* what schedule_consultation stores under a new id
StoredConsultation(id, data) ==
    [id |-> id,
     name |-> Get(data, "name"),
     email |-> Get(data, "email"),
     date |-> Get(data, "date"),
     time |-> Get(data, "time"),
     topic |-> Get(data, "topic"),
     status |-> "scheduled",
     created_at |-> now]

ScheduleFailed == [status |-> 500, detail |-> "Failed to schedule consultation"]

\* POST /consultation/schedule. body.json tells what request.json() gives:
\* "invalid" (it raises), "list" (a value without get) or "object" (body.data)
schedule_consultation(body) ==
    IF body.json = "invalid"
    THEN /\ last_consult' = [op |-> "schedule", body |-> body, response |-> ScheduleFailed]
         /\ UNCHANGED <<consultations, returned, uuids>>
    ELSE LET consultation_id == uuids + 1 IN
         /\ uuids' = uuids + 1
         /\ IF body.json # "object"
            THEN \* data.get raises while the record is being built
                 /\ last_consult' = [op |-> "schedule", body |-> body, response |-> ScheduleFailed]
                 /\ UNCHANGED <<consultations, returned>>
            ELSE /\ consultations' = DictSet(consultations, consultation_id,
                                             StoredConsultation(consultation_id, body.data))
                 /\ IF GetOr(body.data, "topic", "") = None
                    THEN \* None has no lower(): the handler fails after the store
                         /\ last_consult' = [op |-> "schedule", body |-> body,
                                             response |-> ScheduleFailed]
                         /\ UNCHANGED returned
                    ELSE /\ returned' = DictSet(returned, consultation_id, body.data)
                         /\ last_consult' =
                               [op |-> "schedule", body |-> body,
                                response |-> [status |-> 200,
                                              consultation_id |-> consultation_id,
                                              state |-> "scheduled",
                                              type |-> AdviceType(Lower[GetOr(body.data, "topic", "")])]]

\* GET /consultation/{consultation_id}
get_consultation(consultation_id) ==
    /\ last_consult' =
          [op |-> "get", id |-> consultation_id,
           response |-> IF consultation_id \notin DOMAIN consultations
                        THEN [status |-> 404, detail |-> "Consultation not found"]
                        ELSE [status |-> 200, body |-> consultations[consultation_id]]]
    /\ UNCHANGED <<consultations, returned, uuids>>

\* ------------------------------------------------------------- ai_tutor
\* a text is the sequence of its characters

\* str.lower(), character by character
LowerChar ==
    [c \in {"A", "B", "C", "D", "E", "F", "G", "H", "I", "J", "K", "L", "M", "N", "O", "P",
            "Q", "R", "S", "T", "U", "V", "W", "X", "Y", "Z"} |->
        CASE c = "A" -> "a" [] c = "B" -> "b" [] c = "C" -> "c" [] c = "D" -> "d"
          [] c = "E" -> "e" [] c = "F" -> "f" [] c = "G" -> "g" [] c = "H" -> "h"
          [] c = "I" -> "i" [] c = "J" -> "j" [] c = "K" -> "k" [] c = "L" -> "l"
          [] c = "M" -> "m" [] c = "N" -> "n" [] c = "O" -> "o" [] c = "P" -> "p"
          [] c = "Q" -> "q" [] c = "R" -> "r" [] c = "S" -> "s" [] c = "T" -> "t"
          [] c = "U" -> "u" [] c = "V" -> "v" [] c = "W" -> "w" [] c = "X" -> "x"
          [] c = "Y" -> "y" [] c = "Z" -> "z"]

lower(text) ==
    [i \in 1..Len(text) |-> IF text[i] \in DOMAIN LowerChar THEN LowerChar[text[i]] ELSE text[i]]

\* term in text: the term occurs in the text as a substring
In(term, text) ==
    \E i \in 0..(Len(text) - Len(term)) : SubSeq(text, i + 1, i + Len(term)) = term

\* str.split(): the words between runs of blanks
RECURSIVE split(_)
split(text) ==
    IF text = <<>> THEN <<>>
    ELSE IF text[1] = " " THEN split(Tail(text))
    ELSE LET blanks == {i \in 1..Len(text) : text[i] = " "}
             end    == IF blanks = {} THEN Len(text)
                       ELSE (CHOOSE i \in blanks : \A j \in blanks : i <= j) - 1
         IN  <<SubSeq(text, 1, end)>> \o split(SubSeq(text, end + 1, Len(text)))

\* ' '.join(texts)
RECURSIVE join(_)
join(texts) ==
    IF texts = <<>> THEN <<>>
    ELSE IF Len(texts) = 1 THEN texts[1]
    ELSE texts[1] \o <<" ">> \o join(Tail(texts))

\* AITutor.finance_keywords, in the order of the dictionary
finance_keywords ==
    <<[category |-> <<"m", "o", "n", "e", "y">>,
       terms |-> <<<<"s", "a", "v", "i", "n", "g">>,
                   <<"s", "p", "e", "n", "d", "i", "n", "g">>,
                   <<"e", "a", "r", "n", "i", "n", "g">>,
                   <<"b", "u", "d", "g", "e", "t", "i", "n", "g">>,
                   <<"i", "n", "c", "o", "m", "e">>>>],
      [category |-> <<"i", "n", "v", "e", "s", "t", "m", "e", "n", "t">>,
       terms |-> <<<<"s", "t", "o", "c", "k", "s">>,
                   <<"b", "o", "n", "d", "s">>,
                   <<"m", "u", "t", "u", "a", "l", " ", "f", "u", "n", "d", "s">>,
                   <<"p", "o", "r", "t", "f", "o", "l", "i", "o">>,
                   <<"d", "i", "v", "e", "r", "s", "i", "f", "i", "c", "a", "t", "i", "o", "n">>>>],
      [category |-> <<"r", "i", "s", "k">>,
       terms |-> <<<<"v", "o", "l", "a", "t", "i", "l", "i", "t", "y">>,
                   <<"m", "a", "r", "k", "e", "t", " ", "r", "i", "s", "k">>,
                   <<"d", "i", "v", "e", "r", "s", "i", "f", "i", "c", "a", "t", "i", "o", "n">>,
                   <<"r", "i", "s", "k", " ", "m", "a", "n", "a", "g", "e", "m", "e", "n", "t">>>>],
      [category |-> <<"t", "e", "c", "h", "n", "i", "c", "a", "l">>,
       terms |-> <<<<"R", "S", "I">>,
                   <<"m", "o", "v", "i", "n", "g", " ", "a", "v", "e", "r", "a", "g", "e">>,
                   <<"s", "u", "p", "p", "o", "r", "t">>,
                   <<"r", "e", "s", "i", "s", "t", "a", "n", "c", "e">>,
                   <<"t", "r", "e", "n", "d">>>>],
      [category |-> <<"f", "u", "n", "d", "a", "m", "e", "n", "t", "a", "l">>,
       terms |-> <<<<"P", "/", "E", " ", "r", "a", "t", "i", "o">>,
                   <<"e", "a", "r", "n", "i", "n", "g", "s">>,
                   <<"r", "e", "v", "e", "n", "u", "e">>,
                   <<"m", "a", "r", "k", "e", "t", " ", "c", "a", "p">>,
                   <<"v", "a", "l", "u", "a", "t", "i", "o", "n">>>>]>>

\* the dictionaries of the four handlers, in their order
definitions ==
    <<[term |-> <<"s", "t", "o", "c", "k">>,
       text |->
          "A stock represents ownership in a company and a claim on part of that company's earnings and assets."],
      [term |-> <<"b", "o", "n", "d">>,
       text |->
          "A bond is a fixed income instrument that represents a loan made by an investor to a borrower."],
      [term |-> <<"m", "u", "t", "u", "a", "l", " ", "f", "u", "n", "d">>,
       text |->
          "A mutual fund is a company that pools money from many investors and invests it in securities like stocks, bonds, and short-term debt."],
      [term |-> <<"d", "i", "v", "i", "d", "e", "n", "d">>,
       text |->
          "A dividend is a distribution of profits by a corporation to its shareholders."],
      [term |-> <<"m", "a", "r", "k", "e", "t", " ", "c", "a", "p">>,
       text |->
          "Market capitalization is the total value of a company's shares of stock."]>>

\* _handle_how_to_question
how_to_guides ==
    <<[term |-> <<"i", "n", "v", "e", "s", "t">>,
       text |->
          "To start investing: 1. Set your goals 2. Determine your risk tolerance 3. Choose your investment strategy 4. Select appropriate investments 5. Monitor and adjust your portfolio"],
      [term |-> <<"s", "a", "v", "e">>,
       text |->
          "To save effectively: 1. Create a budget 2. Track your expenses 3. Set savings goals 4. Automate your savings 5. Reduce unnecessary expenses"],
      [term |-> <<"b", "u", "d", "g", "e", "t">>,
       text |->
          "To create a budget: 1. Calculate your income 2. Track your expenses 3. Set financial goals 4. Create spending categories 5. Monitor and adjust regularly"]>>

\* _handle_explanation_question
explanations ==
    <<[term |-> <<"r", "i", "s", "k">>,
       text |->
          "Risk in investing refers to the possibility of losing some or all of your investment. It's often measured by volatility - how much an investment's value changes over time."],
      [term |-> <<"d", "i", "v", "e", "r", "s", "i", "f", "i", "c", "a", "t", "i", "o", "n">>,
       text |->
          "Diversification is a risk management strategy that involves spreading your investments across different assets to reduce exposure to any single asset or risk."],
      [term |-> <<"c", "o", "m", "p", "o", "u", "n", "d", " ", "i", "n", "t", "e", "r", "e", "s", "t">>,
       text |->
          "Compound interest is when you earn interest on both your initial investment and previously earned interest, leading to exponential growth over time."]>>

\* _handle_comparison_question: the terms of an entry are separated by a blank
comparisons ==
    <<[term |-> <<"s", "t", "o", "c", "k", "s", " ", "b", "o", "n", "d", "s">>,
       text |->
          "Stocks represent ownership in a company and typically offer higher potential returns with higher risk. Bonds are loans to companies or governments and typically offer lower, more stable returns with lower risk."],
      [term |-> <<"s", "a", "v", "i", "n", "g", " ", "i", "n", "v", "e", "s", "t", "i", "n", "g">>,
       text |->
          "Saving typically involves putting money in a safe place with minimal risk and lower returns. Investing involves putting money into assets with the potential for higher returns but also higher risk."],
      [term |-> <<"b", "u", "l", "l", " ", "b", "e", "a", "r">>,
       text |->
          "A bull market is when stock prices are rising and market sentiment is optimistic. A bear market is when stock prices are falling and sentiment is pessimistic."]>>

\* the fixed replies
Refusal == "I can only answer questions related to finance and the current course material."
Apology == "I apologize, but I'm having trouble processing your question. Please try again later."
NeedMoreAboutFinance == "I understand your question is about finance, but I need more specific information to provide a helpful answer."
NeedMore == "I understand your question, but I need more specific information to provide a helpful answer."
MaterialPrefix == "Based on the course material: "

\* a reply is a fixed text followed by the course material joined into it
Reply(text) == [text |-> text, material |-> <<>>]
MaterialReply(content) == [text |-> MaterialPrefix, material |-> join(content)]

\* is_finance_related: a category or one of its terms occurs in the lowered query
is_finance_related(query) ==
    LET query_lower == lower(query)
    IN  \E k \in 1..Len(finance_keywords) :
            \/ In(finance_keywords[k].category, query_lower)
            \/ \E j \in 1..Len(finance_keywords[k].terms) :
                   In(finance_keywords[k].terms[j], query_lower)

Least(S) == CHOOSE i \in S : \A j \in S : i <= j
Greatest(S) == CHOOSE i \in S : \A j \in S : i >= j

_get_content_based_response(content) ==
    IF content # <<>> THEN MaterialReply(content) ELSE Reply(NeedMore)

\* the loop of a handler over its dictionary: the first entry whose term
\* occurs in the query answers
FirstEntry(table, query, content) ==
    LET found == {i \in 1..Len(table) : In(table[i].term, query)}
    IN  IF found # {} THEN Reply(table[Least(found)].text)
        ELSE _get_content_based_response(content)

_handle_definition_question(query, content) == FirstEntry(definitions, query, content)
_handle_how_to_question(query, content) == FirstEntry(how_to_guides, query, content)
_handle_explanation_question(query, content) == FirstEntry(explanations, query, content)

\* the loop of the comparison handler: the first entry all of whose terms
\* occur in the query answers
_handle_comparison_question(query, content) ==
    LET found == {i \in 1..Len(comparisons) :
                     \A j \in 1..Len(split(comparisons[i].term)) :
                         In(split(comparisons[i].term)[j], query)}
    IN  IF found # {} THEN Reply(comparisons[Least(found)].text)
        ELSE _get_content_based_response(content)

\* qa_pairs, in the order of the dictionary
qa_pairs ==
    <<[question_type |-> <<"w", "h", "a", "t", " ", "i", "s">>, handler |-> "definition"],
      [question_type |-> <<"h", "o", "w", " ", "t", "o">>, handler |-> "how_to"],
      [question_type |-> <<"e", "x", "p", "l", "a", "i", "n">>, handler |-> "explanation"],
      [question_type |-> <<"d", "i", "f", "f", "e", "r", "e", "n", "c", "e", " ", "b", "e", "t", "w", "e", "e", "n">>, handler |-> "comparison"]>>

Handle(handler, query, content) ==
    CASE handler = "definition" -> _handle_definition_question(query, content)
      [] handler = "how_to" -> _handle_how_to_question(query, content)
      [] handler = "explanation" -> _handle_explanation_question(query, content)
      [] handler = "comparison" -> _handle_comparison_question(query, content)

\* a dispatch in which the last matching question type wins
_generate_contextual_response_LastType(query, relevant_content) ==
    LET found == {i \in 1..Len(qa_pairs) : In(qa_pairs[i].question_type, query)}
    IN  IF found # {} THEN Handle(qa_pairs[Greatest(found)].handler, query, relevant_content)
        ELSE IF relevant_content # <<>> THEN MaterialReply(relevant_content)
        ELSE Reply(NeedMoreAboutFinance)

_generate_contextual_response(query, relevant_content) ==
    LET found == {i \in 1..Len(qa_pairs) : In(qa_pairs[i].question_type, query)}
    IN  IF found # {} THEN Handle(qa_pairs[Least(found)].handler, query, relevant_content)
        ELSE IF relevant_content # <<>> THEN MaterialReply(relevant_content)
        ELSE Reply(NeedMoreAboutFinance)

\* module.get("content", ""): a content of <<text>> is a string, of <<>> is null
ContentOf(module) == IF "content" \in DOMAIN module THEN module["content"] ELSE <<<<>>>>

\* the loop of get_response over the modules of the context: the contents in
\* which a word of the query occurs
RECURSIVE RelevantContent(_, _)
RelevantContent(modules, keywords) ==
    IF modules = <<>> THEN <<>>
    ELSE LET module_content == lower(ContentOf(modules[1])[1])
         IN  (IF \E k \in 1..Len(keywords) : In(keywords[k], module_content)
              THEN <<modules[1]["content"][1]>> ELSE <<>>)
             \o RelevantContent(Tail(modules), keywords)

\* what the try block of get_response raises for a finance-related query:
\* json.loads fails, the context has no get, or a content has no lower
ProcessingException(course_context) ==
    IF course_context.json = "invalid" THEN "JSONDecodeError"
    ELSE IF course_context.json # "object" THEN "AttributeError"
    ELSE IF \E i \in 1..Len(course_context.modules) :
                ContentOf(course_context.modules[i]) = <<>> THEN "AttributeError"
    ELSE None

\* a handler that catches the failure of json.loads only
HandledByExcept_JsonOnly(exc) == exc = "JSONDecodeError"

\* the handler of get_response is "except Exception"
HandledByExcept(exc) == exc # None

\* get_response(query, course_context): what is returned, or the exception
\* that escapes
get_response(query, course_context) ==
    IF ~is_finance_related(query)
    THEN [raised |-> None, response |-> Reply(Refusal), relevant |-> FALSE]
    ELSE LET exc == ProcessingException(course_context)
         IN  IF exc = None
             THEN LET query_lower == lower(query)
                      relevant_content ==
                          RelevantContent(course_context.modules, split(query_lower))
                  IN  [raised |-> None,
                       response |-> _generate_contextual_response(query_lower, relevant_content),
                       relevant |-> TRUE]
             ELSE IF HandledByExcept(exc)
             THEN [raised |-> None, response |-> Reply(Apology), relevant |-> FALSE]
             ELSE [raised |-> exc]

\* a call of the tutor
AskTutor(query, course_context) ==
    last_tutor' = [query |-> query, course_context |-> course_context,
                   result |-> get_response(query, course_context)]

\* ------------------------------------------------------------ routes/chat
HTTPException(status_code, detail) ==
    [raised |-> "HTTPException", status_code |-> status_code, detail |-> detail]

\* what the inner try block of chat does with a generate_response call: the
\* exception it raises, or the body it returns
InnerBlock(call) ==
    IF call.raised
    THEN [raised |-> "Exception", detail |-> "raised by generate_response"]
    ELSE IF DOMAIN call.result = {}
    THEN HTTPException(500, "Invalid response from AI service")
    ELSE IF call.result.status = "error"
    THEN HTTPException(500, call.result.message)
    ELSE [raised |-> None, status_code |-> 200,
          response |-> call.result.message, timestamp |-> call.result.timestamp]

\* the inner handler, "except Exception", takes whatever the inner block
\* raised, the HTTPException of the block included, and raises its own
InnerHandler(outcome) ==
    IF outcome.raised # None
    THEN HTTPException(500, "Error generating AI response")
    ELSE outcome

\* the outer handlers: an HTTPException is raised again, a ValueError becomes
\* a 400 with its text, any other exception a 500
OuterHandler(outcome) ==
    IF outcome.raised = "HTTPException" THEN outcome
    ELSE IF outcome.raised = "ValueError" THEN HTTPException(400, outcome.detail)
    ELSE IF outcome.raised # None THEN HTTPException(500, "An unexpected error occurred")
    ELSE outcome

\* what reading and validating the body raises: request.json() fails on a
\* body that is no JSON, ChatRequest(**data) on a list and on a missing message
BodyRejected(body) ==
    IF body.json = "invalid"
    THEN [raised |-> "ValueError", detail |-> "Expecting value"]
    ELSE IF body.json # "object"
    THEN [raised |-> "TypeError", detail |-> "argument after ** must be a mapping"]
    ELSE IF "message" \notin DOMAIN body.data
    THEN [raised |-> "ValueError", detail |-> "message: field required"]
    ELSE [raised |-> None]

\* POST /chat/tutor: the service is called for a fresh session id with the
\* message of the body; gem, fb and loop are what the models and the
\* scheduling of the broadcast do during the call
chat(body, gem, fb, loop) ==
    IF BodyRejected(body).raised # None
    THEN /\ last_chat' = [body |-> body, called |-> FALSE,
                          response |-> OuterHandler(BodyRejected(body))]
         /\ UNCHANGED <<aiVars, uuids>>
    ELSE /\ uuids' = uuids + 1
         /\ generate_response(<<"session_", uuids + 1>>, body.data["message"], gem, fb, loop)
         /\ last_chat' = [body |-> body, called |-> TRUE,
                          response |-> OuterHandler(InnerHandler(InnerBlock(last_call')))]

\* ----------------------------------------------------------- collaboration
\* str(n) for the group counts that occur, and the uuid4 values in the order
\* they are drawn
Str == <<"1", "2", "3", "4", "5", "6">>
Uuid4 == <<"uuid-a", "uuid-b", "uuid-c", "uuid-d", "uuid-e", "uuid-f", "uuid-g", "uuid-h">>

\* the outcome of _save_json(path, data): the file after the call. When open
\* fails the file is left as it was, when json.dump fails the file has been
\* truncated and holds no document; the exception is logged and dropped
Unreadable == [document |-> "unreadable"]
_save_json(file, data, write) ==
    IF write = "ok" THEN [document |-> "json", value |-> data]
    ELSE IF write = "open fails" THEN file
    ELSE Unreadable

\* _load_json(path, default): the default for a missing file and for a file
\* json.load fails on
Missing == [document |-> "missing"]
_load_json(file, default) ==
    IF file.document = "json" THEN file.value ELSE default

\* a value json.load can give for notes.json: a list with its items, or a
\* JSON object, which has no append
List(items) == [type |-> "list", items |-> items]
JsonObject == [type |-> "dict", items |-> <<>>]

\* len(self.notes)
LenOf(value) == Len(value.items)

\* save_note(title, content, user_id, course_id): the note is appended and
\* the list written; write is what the write to notes.json does
save_note(title, content, user_id, course_id, write) ==
    LET note == [id |-> LenOf(notes) + 1, title |-> title, content |-> content,
                 user_id |-> user_id, course_id |-> course_id,
                 created_at |-> now, updated_at |-> now]
    IN  IF notes.type = "list"
        THEN /\ notes' = List(Append(notes.items, note))
             /\ notes_file' = _save_json(notes_file, notes', write)
             /\ last_note' = [title |-> title, user_id |-> user_id, write |-> write,
                              result |-> [success |-> TRUE, note |-> note]]
        ELSE \* append raises AttributeError, which the handler reports
             /\ last_note' = [title |-> title, user_id |-> user_id, write |-> write,
                              result |-> [success |-> FALSE,
                                          error |-> "'dict' object has no attribute 'append'"]]
             /\ UNCHANGED <<notes, notes_file>>

\* _load_data, as run by the constructor when the process starts again
_load_data ==
    /\ notes' = _load_json(notes_file, List(<<>>))
    /\ UNCHANGED <<notes_file, last_note>>

\* a member as create_study_group and join_study_group store it, the user id
\* itself, and as create_group stores it, a dictionary
IdMember(user_id) == [user_id |-> user_id]
DictMember(data) == [id |-> data["creator_id"], name |-> data["creator_name"], role |-> "admin"]

\* user_id in members: the user id equals an element of the list
InList(user_id, members) == \E i \in 1..Len(members) : members[i] = IdMember(user_id)

create_study_group(name, description, course_id, created_by, write) ==
    LET group_id == Str[Cardinality(DOMAIN study_groups) + 1]
        group == [id |-> group_id, name |-> name, description |-> description,
                  course_id |-> course_id, created_by |-> created_by, created_at |-> now,
                  members |-> <<IdMember(created_by)>>, messages |-> <<>>, resources |-> <<>>]
    IN  /\ study_groups' = DictSet(study_groups, group_id, group)
        /\ groups_file' = _save_json(groups_file, study_groups', write)
        /\ last_group' = [op |-> "create_study_group", group_id |-> group_id,
                          raised |-> None, result |-> [success |-> TRUE, group |-> group]]
        /\ UNCHANGED uuids

join_study_group(group_id, user_id, write) ==
    IF group_id \notin DOMAIN study_groups
    THEN /\ last_group' = [op |-> "join_study_group", group_id |-> group_id,
                           user_id |-> user_id, raised |-> None,
                           result |-> [success |-> FALSE, error |-> "Study group not found"]]
         /\ UNCHANGED <<study_groups, groups_file, uuids>>
    ELSE /\ IF ~InList(user_id, study_groups[group_id].members)
            THEN /\ study_groups' =
                       [study_groups EXCEPT ![group_id].members = Append(@, IdMember(user_id))]
                 /\ groups_file' = _save_json(groups_file, study_groups', write)
            ELSE UNCHANGED <<study_groups, groups_file>>
         /\ last_group' = [op |-> "join_study_group", group_id |-> group_id,
                           user_id |-> user_id, raised |-> None,
                           result |-> [success |-> TRUE, group |-> study_groups'[group_id]]]
         /\ UNCHANGED uuids

\* create_group(data): a missing key of data raises KeyError after the id was drawn
create_group(data, write) ==
    LET group_id == Uuid4[uuids + 1]
    IN  /\ uuids' = uuids + 1
        /\ IF {"name", "description", "creator_id", "creator_name"} \subseteq DOMAIN data
           THEN LET new_group == [id |-> group_id, name |-> data["name"],
                                  description |-> data["description"],
                                  members |-> <<DictMember(data)>>, discussions |-> <<>>]
                IN  /\ study_groups' = DictSet(study_groups, group_id, new_group)
                    /\ groups_file' = _save_json(groups_file, study_groups', write)
                    /\ last_group' = [op |-> "create_group", group_id |-> group_id,
                                      raised |-> None, result |-> new_group]
           ELSE /\ last_group' = [op |-> "create_group", group_id |-> group_id,
                                  raised |-> "KeyError"]
                /\ UNCHANGED <<study_groups, groups_file>>

\* add_group_discussion(group_id, data): the discussion is built, then
\* appended to the 'discussions' of the group; a group without that key
\* raises KeyError. The result is <<discussion>>, or <<>> for None
add_group_discussion(group_id, data, write) ==
    IF group_id \notin DOMAIN study_groups
    THEN /\ last_group' = [op |-> "add_group_discussion", group_id |-> group_id,
                           data |-> data, raised |-> None, result |-> <<>>]
         /\ UNCHANGED <<study_groups, groups_file, uuids>>
    ELSE LET discussion == [id |-> Uuid4[uuids + 1], title |-> data["title"],
                            content |-> data["content"], created_at |-> now,
                            author |-> data["author"]]
         IN  /\ uuids' = uuids + 1
             /\ IF "discussions" \in DOMAIN study_groups[group_id]
                THEN /\ study_groups' =
                           [study_groups EXCEPT ![group_id].discussions = Append(@, discussion)]
                     /\ groups_file' = _save_json(groups_file, study_groups', write)
                     /\ last_group' = [op |-> "add_group_discussion", group_id |-> group_id,
                                       data |-> data, raised |-> None,
                                       result |-> <<discussion>>]
                ELSE /\ last_group' = [op |-> "add_group_discussion", group_id |-> group_id,
                                       data |-> data, raised |-> "KeyError"]
                     /\ UNCHANGED <<study_groups, groups_file>>

\* ---------------------------------------------------------- specifications
\* the state after construction of everything but the score store, for a
\* service configured with the given key and with or without the fallback model
Services(key, loaded) ==
    /\ api_key = key
    /\ fallback_loaded = loaded
    /\ conversation_history = EmptyDict
    /\ last_call = NoCall
    /\ calls = 0
    /\ tasks = <<>>
    /\ active_connections = EmptyDict
    /\ accepted = {}
    /\ sent_log = {}
    /\ user_progress = EmptyDict
    /\ last_quiz = NoCall
    /\ stocks_cache = EmptyDict
    /\ last_update = <<>>
    /\ now = 0
    /\ pc = [p \in Callers |-> "idle"]
    /\ fetches = <<>>
    /\ last_market = NoCall
    /\ stock_data = <<>>
    /\ market_summary = NoCall
    /\ last_fetch = NoCall
    /\ consultations = EmptyDict
    /\ returned = EmptyDict
    /\ uuids = 0
    /\ last_consult = NoCall
    /\ last_tutor = NoCall
    /\ last_chat = NoCall
    /\ study_groups = EmptyDict
    /\ groups_file = Missing
    /\ last_group = NoCall
    /\ last_note = NoCall

\* the notes as CollaborationManager.__init__ loads them from notes.json
LoadedNotes(file) ==
    /\ notes_file = file
    /\ notes = _load_json(file, List(<<>>))

\* there is no notes.json
NoNotes == LoadedNotes(Missing)

Constructed(key, loaded) ==
    /\ Services(key, loaded)
    /\ game_scores = EmptyDict
    /\ all_saved = EmptyDict
    /\ NoNotes

Init == \E key \in {"key", PlaceholderKey}, loaded \in BOOLEAN : Constructed(key, loaded)

InitConfigured == Constructed("key", TRUE)

\* the chat pipeline alone: calls of generate_response
GenerateResponse ==
    \E u \in UserIds, q \in Questions, gem \in GeminiOutcomes,
       fb \in FallbackOutcomes, loop \in BOOLEAN :
        /\ generate_response(u, q, gem, fb, loop)
        /\ UNCHANGED <<wsVars, quizVars, gameVars, marketVars, laterVars>>

NextChat == GenerateResponse

SpecChat == Init /\ [][NextChat]_vars

\* the chat pipeline with the WebSocket fan-out
Ask ==
    \E u \in UserIds, gem \in GeminiOutcomes, fb \in FallbackOutcomes :
        /\ calls < MaxTasks
        /\ gem.outcome # "invalid"
        /\ generate_response(u, "q1", gem, fb, TRUE)
        /\ UNCHANGED <<wsVars, quizVars, gameVars, marketVars, laterVars>>

Connect ==
    \E ws \in Sockets, u \in UserIds :
        /\ connect(ws, u)
        /\ UNCHANGED <<api_key, fallback_loaded, conversation_history, last_call, calls,
                       quizVars, gameVars, marketVars, laterVars>>

Disconnect ==
    \E ws \in Sockets, u \in UserIds :
        /\ disconnect(ws, u)
        /\ UNCHANGED <<api_key, fallback_loaded, conversation_history, last_call, calls,
                       quizVars, gameVars, marketVars, laterVars>>

Broadcast ==
    \E i \in 1..Len(tasks) :
        /\ \/ BroadcastStart(i)
           \/ \E ok \in BOOLEAN : BroadcastResume(i, ok)
        /\ UNCHANGED <<api_key, fallback_loaded, conversation_history, last_call, calls,
                       quizVars, gameVars, marketVars, laterVars>>

NextSocket == Ask \/ Connect \/ Disconnect \/ Broadcast

SpecSocket == Init /\ [][NextSocket]_vars

\* quiz submissions
CourseInputs == {"fin101", "python", "nope"}
ModuleInputs == {"fin101-m1", "py-mod-2", "nope"}
AnswerInputs ==
    UNION {[qs -> {0, 1, 2}] : qs \in SUBSET {"q1", "q2"}}
    \cup {DictSet(a, "q9", 1) : a \in UNION {[qs -> {0}] : qs \in SUBSET {"q1", "q2"}}}

SubmitQuiz ==
    \E c \in CourseInputs, m \in ModuleInputs, u \in {"u1"}, a \in AnswerInputs :
        /\ submit_quiz(c, m, u, a)
        /\ UNCHANGED <<aiVars, wsVars, gameVars, marketVars, laterVars>>

NextQuiz == SubmitQuiz

SpecQuiz == InitConfigured /\ [][NextQuiz]_vars

\* the score store: two players, up to MaxSaves scores
Scores == {1, 2}
Times  == {1, 2}

\* a call by a known player or by the next new one
SaveGameScore(players) ==
    \E u \in 1..players, score \in Scores, completion_time \in Times :
        /\ u <= Cardinality(DOMAIN game_scores) + 1
        /\ save_game_score(u, score, completion_time)
        /\ all_saved' = Recorded(u, Entry(score, completion_time))
        /\ UNCHANGED <<aiVars, wsVars, quizVars, marketVars, laterVars>>

NextGame == TotalSaved < MaxSaves /\ SaveGameScore(2)

SpecGame == InitConfigured /\ [][NextGame]_vars

\* the leaderboard: ten players have saved one score each, then up to
\* MaxBoardSaves more scores are saved by them or by new players
SeedEntry(u) == Entry(1 + (u % 3), 1 + (u % 2))

InitBoard ==
    /\ Services("key", TRUE)
    /\ game_scores = [u \in 1..TopScores |-> <<SeedEntry(u)>>]
    /\ all_saved = [u \in 1..TopScores |-> DictSet(EmptyDict, SeedEntry(u), 1)]
    /\ NoNotes

NextBoard == TotalSaved < TopScores + MaxBoardSaves /\ SaveGameScore(TopScores + MaxBoardSaves)

SpecBoard == InitBoard /\ [][NextBoard]_vars

\* the market data cache: overlapping get_market_data calls and the clock
MarketStart ==
    \E p \in Callers :
        /\ MarketCallStart(p)
        /\ UNCHANGED <<aiVars, wsVars, quizVars, gameVars, laterVars>>

MarketFinish ==
    \E p \in Callers, quotes \in Quotes :
        /\ MarketCallFinish(p, quotes)
        /\ UNCHANGED <<aiVars, wsVars, quizVars, gameVars, laterVars>>

ClockTick == Tick /\ UNCHANGED <<aiVars, wsVars, quizVars, gameVars, laterVars>>

NextMarket == MarketStart \/ MarketFinish \/ ClockTick

SpecMarket == InitConfigured /\ [][NextMarket]_vars

\* one fetch round of get_market_data over the first MaxSymbols tracked symbols
RoundSymbols == FirstN(TrackedSymbols, MaxSymbols)

\* a complete quote as the upstream sends it
FullQuote ==
    ("05. price" :> "7") @@ ("09. change" :> "7") @@ ("10. change percent" :> "7%")
    @@ ("06. volume" :> "7")

\* the quotes the upstream can send: complete, empty, with a field missing,
\* or with a field whose text is not a number
QuoteInputs ==
    {FullQuote,
     [k \in {} |-> "7"],
     [k \in DOMAIN FullQuote \ {"06. volume"} |-> FullQuote[k]],
     [FullQuote EXCEPT !["10. change percent"] = "7"],
     [FullQuote EXCEPT !["10. change percent"] = "n/a"],
     [FullQuote EXCEPT !["05. price"] = "n/a"],
     [FullQuote EXCEPT !["09. change"] = "7%"],
     [FullQuote EXCEPT !["06. volume"] = "n/a"]}

\* the bodies response.json() can give: <<>> where it raises
JsonInputs ==
    {<<>>, <<[Note |-> "rate limit"]>>} \cup {<<("Global Quote" :> q)>> : q \in QuoteInputs}

ReplyInputs ==
    {[raises |-> TRUE, status |-> 0, json |-> <<>>],
     [raises |-> FALSE, status |-> 500, json |-> <<>>]}
    \cup {[raises |-> FALSE, status |-> 200, json |-> j] : j \in JsonInputs}

RandomInputs ==
    {[change_percent |-> c, volume |-> 500000, chart |-> 5] : c \in {-3, 3}}

FetchStock ==
    \E reply \in ReplyInputs, rnd \in RandomInputs :
        /\ GatherNext(RoundSymbols, reply, rnd)
        /\ UNCHANGED <<aiVars, wsVars, quizVars, gameVars, marketVars, consultVars, uuids,
                       tutorVars, routeVars, groupVars, noteVars>>

SummariseRound ==
    /\ Summarise(RoundSymbols)
    /\ UNCHANGED <<aiVars, wsVars, quizVars, gameVars, marketVars, consultVars, uuids,
                   tutorVars, routeVars, groupVars, noteVars>>

NextFetch == FetchStock \/ SummariseRound

SpecFetch == InitConfigured /\ [][NextFetch]_vars

\* consultation requests: up to MaxConsultations schedule requests and any lookups
TopicInputs == DOMAIN Lower \cup {None}

ConsultationData ==
    LET person == [name |-> "Ann", email |-> "ann@example.org", date |-> "2025-01-10",
                   time |-> "10:00"]
    IN  {person, [k \in {"email"} |-> "ann@example.org"]}
        \cup {person @@ [topic |-> t] : t \in TopicInputs}

BodyInputs ==
    {[json |-> "invalid", data |-> EmptyDict], [json |-> "list", data |-> EmptyDict]}
    \cup {[json |-> "object", data |-> d] : d \in ConsultationData}

ScheduleConsultation ==
    \E body \in BodyInputs :
        /\ uuids < MaxConsultations
        /\ schedule_consultation(body)
        /\ UNCHANGED <<aiVars, wsVars, quizVars, gameVars, marketVars, fetchVars,
                       tutorVars, routeVars, groupVars, noteVars>>

GetConsultation ==
    \E id \in 1..(MaxConsultations + 1) :
        /\ get_consultation(id)
        /\ UNCHANGED <<aiVars, wsVars, quizVars, gameVars, marketVars, fetchVars,
                       tutorVars, routeVars, groupVars, noteVars>>

NextConsult == ScheduleConsultation \/ GetConsultation

SpecConsult == InitConfigured /\ [][NextConsult]_vars

\* the queries put to the tutor
QueryInputs ==
    {\* What is a stock in my portfolio
     <<"W", "h", "a", "t", " ", "i", "s", " ", "a", " ", "s", "t", "o", "c", "k", " ", "i", "n",
     " ", "m", "y", " ", "p", "o", "r", "t", "f", "o", "l", "i", "o">>,
     \* what is the weather
     <<"w", "h", "a", "t", " ", "i", "s", " ", "t", "h", "e", " ", "w", "e", "a", "t", "h", "e",
     "r">>,
     \* What is a stock
     <<"W", "h", "a", "t", " ", "i", "s", " ", "a", " ", "s", "t", "o", "c", "k">>,
     \* how to invest money
     <<"h", "o", "w", " ", "t", "o", " ", "i", "n", "v", "e", "s", "t", " ", "m", "o", "n", "e",
     "y">>,
     \* explain what is risk
     <<"e", "x", "p", "l", "a", "i", "n", " ", "w", "h", "a", "t", " ", "i", "s", " ", "r", "i",
     "s", "k">>,
     \* explain risk and diversification
     <<"e", "x", "p", "l", "a", "i", "n", " ", "r", "i", "s", "k", " ", "a", "n", "d", " ", "d",
     "i", "v", "e", "r", "s", "i", "f", "i", "c", "a", "t", "i", "o", "n">>,
     \* difference between stocks and bonds
     <<"d", "i", "f", "f", "e", "r", "e", "n", "c", "e", " ", "b", "e", "t", "w", "e", "e", "n",
     " ", "s", "t", "o", "c", "k", "s", " ", "a", "n", "d", " ", "b", "o", "n", "d", "s">>,
     \* how to explain earnings
     <<"h", "o", "w", " ", "t", "o", " ", "e", "x", "p", "l", "a", "i", "n", " ", "e", "a", "r",
     "n", "i", "n", "g", "s">>,
     \* tell me about saving
     <<"t", "e", "l", "l", " ", "m", "e", " ", "a", "b", "o", "u", "t", " ", "s", "a", "v", "i",
     "n", "g">>,
     \* what is a mutual fund or a dividend from stocks
     <<"w", "h", "a", "t", " ", "i", "s", " ", "a", " ", "m", "u", "t", "u", "a", "l", " ", "f",
     "u", "n", "d", " ", "o", "r", " ", "a", " ", "d", "i", "v", "i", "d", "e", "n", "d", " ",
     "f", "r", "o", "m", " ", "s", "t", "o", "c", "k", "s">>,
     \* difference between saving and investing
     <<"d", "i", "f", "f", "e", "r", "e", "n", "c", "e", " ", "b", "e", "t", "w", "e", "e", "n",
     " ", "s", "a", "v", "i", "n", "g", " ", "a", "n", "d", " ", "i", "n", "v", "e", "s", "t",
     "i", "n", "g">>,
     \* explain the trend
     <<"e", "x", "p", "l", "a", "i", "n", " ", "t", "h", "e", " ", "t", "r", "e", "n", "d">>,
     \* how to budget my income
     <<"h", "o", "w", " ", "t", "o", " ", "b", "u", "d", "g", "e", "t", " ", "m", "y", " ", "i",
     "n", "c", "o", "m", "e">>,
     \* explain compound interest on bonds
     <<"e", "x", "p", "l", "a", "i", "n", " ", "c", "o", "m", "p", "o", "u", "n", "d", " ", "i",
     "n", "t", "e", "r", "e", "s", "t", " ", "o", "n", " ", "b", "o", "n", "d", "s">>,
     \* difference between bull and bear market risk
     <<"d", "i", "f", "f", "e", "r", "e", "n", "c", "e", " ", "b", "e", "t", "w", "e", "e", "n",
     " ", "b", "u", "l", "l", " ", "a", "n", "d", " ", "b", "e", "a", "r", " ", "m", "a", "r",
     "k", "e", "t", " ", "r", "i", "s", "k">>,
     \* difference between bonds and mutual funds
     <<"d", "i", "f", "f", "e", "r", "e", "n", "c", "e", " ", "b", "e", "t", "w", "e", "e", "n",
     " ", "b", "o", "n", "d", "s", " ", "a", "n", "d", " ", "m", "u", "t", "u", "a", "l", " ",
     "f", "u", "n", "d", "s">>,
     \* Explain how to save money
     <<"E", "x", "p", "l", "a", "i", "n", " ", "h", "o", "w", " ", "t", "o", " ", "s", "a", "v",
     "e", " ", "m", "o", "n", "e", "y">>,
     \* stocks
     <<"s", "t", "o", "c", "k", "s">>,
     \* (the empty query)
     <<>>,
     \* RSI
     <<"R", "S", "I">>,
     \* what is market cap
     <<"w", "h", "a", "t", " ", "i", "s", " ", "m", "a", "r", "k", "e", "t", " ", "c", "a",
     "p">>,
     \* how to cook
     <<"h", "o", "w", " ", "t", "o", " ", "c", "o", "o", "k">>,
     \* explain the difference between stocks and bonds
     <<"e", "x", "p", "l", "a", "i", "n", " ", "t", "h", "e", " ", "d", "i", "f", "f", "e", "r",
     "e", "n", "c", "e", " ", "b", "e", "t", "w", "e", "e", "n", " ", "s", "t", "o", "c", "k",
     "s", " ", "a", "n", "d", " ", "b", "o", "n", "d", "s">>,
     \* what is the difference between stocks bonds
     <<"w", "h", "a", "t", " ", "i", "s", " ", "t", "h", "e", " ", "d", "i", "f", "f", "e", "r",
     "e", "n", "c", "e", " ", "b", "e", "t", "w", "e", "e", "n", " ", "s", "t", "o", "c", "k",
     "s", " ", "b", "o", "n", "d", "s">>}

\* the module contents a course context can carry
ContentInputs ==
    {\* Saving money early lets compound interest work
     <<"S", "a", "v", "i", "n", "g", " ", "m", "o", "n", "e", "y", " ", "e", "a", "r", "l", "y",
     " ", "l", "e", "t", "s", " ", "c", "o", "m", "p", "o", "u", "n", "d", " ", "i", "n", "t",
     "e", "r", "e", "s", "t", " ", "w", "o", "r", "k">>,
     \* Stocks and bonds differ in risk
     <<"S", "t", "o", "c", "k", "s", " ", "a", "n", "d", " ", "b", "o", "n", "d", "s", " ", "d",
     "i", "f", "f", "e", "r", " ", "i", "n", " ", "r", "i", "s", "k">>,
     \* Portfolio basics
     <<"P", "o", "r", "t", "f", "o", "l", "i", "o", " ", "b", "a", "s", "i", "c", "s">>}

\* the course contexts handed to the tutor: json tells what json.loads gives,
\* "invalid" (it raises), "list" or "object" with the modules of the context;
\* a module may lack its content or carry null for it
ContextInputs ==
    {[json |-> "invalid", modules |-> <<>>],
     [json |-> "list", modules |-> <<>>],
     [json |-> "object", modules |-> <<>>],
     [json |-> "object", modules |-> <<[title |-> <<"M", "1">>]>>],
     [json |-> "object", modules |-> <<[content |-> <<>>]>>]}
    \cup {[json |-> "object", modules |-> <<[content |-> <<c>>]>>] : c \in ContentInputs}
    \cup {[json |-> "object", modules |-> <<[content |-> <<p[1]>>], [content |-> <<p[2]>>]>>] :
             p \in {q \in ContentInputs \X ContentInputs : q[1] # q[2]}}

GetResponse ==
    \E query \in QueryInputs, course_context \in ContextInputs :
        /\ AskTutor(query, course_context)
        /\ UNCHANGED <<aiVars, wsVars, quizVars, gameVars, marketVars, fetchVars,
                       consultVars, uuids, routeVars, groupVars, noteVars>>

NextTutor == GetResponse

SpecTutor == InitConfigured /\ [][NextTutor]_vars

\* chat requests
ChatBodies ==
    {[json |-> "invalid", data |-> EmptyDict], [json |-> "list", data |-> EmptyDict],
     [json |-> "object", data |-> [context |-> "budgeting"]],
     [json |-> "object", data |-> [message |-> "q1"]],
     [json |-> "object", data |-> [message |-> "q2", context |-> "budgeting"]]}

Chat ==
    \E body \in ChatBodies, gem \in GeminiOutcomes, fb \in FallbackOutcomes, loop \in BOOLEAN :
        /\ chat(body, gem, fb, loop)
        /\ UNCHANGED <<wsVars, quizVars, gameVars, marketVars, fetchVars, consultVars,
                       tutorVars, groupVars, noteVars>>

NextRoute == Chat

SpecRoute == Init /\ [][NextRoute]_vars

\* study groups: up to MaxGroups groups are created, by either operation,
\* users join them and discussions are added while uuid4 values last
WriteOutcomes == {"ok", "open fails"}
GroupIds == {Str[n] : n \in 1..MaxGroups} \cup {Uuid4[n] : n \in 1..MaxGroups} \cup {"nope"}
GroupData ==
    {[name |-> "G", description |-> "d", creator_id |-> u, creator_name |-> "Ann"] : u \in UserIds}
    \cup {[name |-> "G", description |-> "d"]}
DiscussionData == {[title |-> "t", content |-> "c", author |-> "u1"]}

CreateStudyGroup ==
    \E created_by \in UserIds, write \in WriteOutcomes :
        /\ Cardinality(DOMAIN study_groups) < MaxGroups
        /\ create_study_group("G", "d", "fin101", created_by, write)
        /\ UNCHANGED <<aiVars, wsVars, quizVars, gameVars, marketVars, fetchVars,
                       consultVars, tutorVars, routeVars, noteVars>>

JoinStudyGroup ==
    \E group_id \in GroupIds, user_id \in UserIds, write \in WriteOutcomes :
        /\ join_study_group(group_id, user_id, write)
        /\ UNCHANGED <<aiVars, wsVars, quizVars, gameVars, marketVars, fetchVars,
                       consultVars, tutorVars, routeVars, noteVars>>

CreateGroup ==
    \E data \in GroupData, write \in WriteOutcomes :
        /\ Cardinality(DOMAIN study_groups) < MaxGroups
        /\ uuids < MaxGroups + MaxDiscussions
        /\ create_group(data, write)
        /\ UNCHANGED <<aiVars, wsVars, quizVars, gameVars, marketVars, fetchVars,
                       consultVars, tutorVars, routeVars, noteVars>>

AddGroupDiscussion ==
    \E group_id \in GroupIds, data \in DiscussionData, write \in WriteOutcomes :
        /\ uuids < MaxGroups + MaxDiscussions
        /\ add_group_discussion(group_id, data, write)
        /\ UNCHANGED <<aiVars, wsVars, quizVars, gameVars, marketVars, fetchVars,
                       consultVars, tutorVars, routeVars, noteVars>>

NextGroups == CreateStudyGroup \/ JoinStudyGroup \/ CreateGroup \/ AddGroupDiscussion

SpecGroups == InitConfigured /\ [][NextGroups]_vars

\* the notes store: notes.json is missing, holds a list, holds a JSON object
\* or cannot be parsed when the manager is constructed; up to MaxNotes notes
\* are in the list
SavedNote ==
    [id |-> 1, title |-> "t0", content |-> "c", user_id |-> "u1", course_id |-> None,
     created_at |-> 0, updated_at |-> 0]

NoteFiles ==
    {Missing, Unreadable,
     [document |-> "json", value |-> List(<<>>)],
     [document |-> "json", value |-> List(<<SavedNote>>)],
     [document |-> "json", value |-> JsonObject]}

NoteWrites == {"ok", "open fails", "dump fails"}

InitNotes ==
    \E file \in NoteFiles :
        /\ Services("key", TRUE)
        /\ game_scores = EmptyDict
        /\ all_saved = EmptyDict
        /\ LoadedNotes(file)

SaveNote ==
    \E title \in {"t1", "t2"}, user_id \in UserIds, write \in NoteWrites :
        /\ LenOf(notes) < MaxNotes
        /\ save_note(title, "c", user_id, None, write)
        /\ UNCHANGED <<aiVars, wsVars, quizVars, gameVars, marketVars, fetchVars,
                       consultVars, uuids, tutorVars, routeVars, groupVars>>

Restart ==
    /\ _load_data
    /\ UNCHANGED <<aiVars, wsVars, quizVars, gameVars, marketVars, fetchVars,
                   consultVars, uuids, tutorVars, routeVars, groupVars>>

NextNotes == SaveNote \/ Restart

SpecNotes == InitNotes /\ [][NextNotes]_vars

\* ------------------------------------------------------------------ claims
Range(s) == {s[i] : i \in 1..Len(s)}

IsPrefix(s, t) == Len(s) <= Len(t) /\ SubSeq(t, 1, Len(s)) = s

TierRank(t) == CASE t = "Gemini" -> 1 [] t = "HuggingFace" -> 2 [] t = "Simulated" -> 3

\* the Gemini attempt of the last call failed / its fallback attempt failed,
\* read off the call's inputs
GeminiAttemptFailed == api_key = PlaceholderKey \/ last_call.gemini.outcome # "ok"

FallbackAttemptFailed == ~fallback_loaded \/ last_call.fallback.outcome # "ok"

\* C1: in every generate_response call the tiers are invoked in the order
\* Gemini, HuggingFace, simulated response, each at most once; HuggingFace is
\* invoked only when the Gemini attempt of the call failed, and the simulated
\* response is produced only when both attempts of the call failed.
C1_TierOrder ==
    calls > 0 =>
        LET inv == last_call.invoked
        IN  /\ \A i, j \in 1..Len(inv) : i < j => TierRank(inv[i]) < TierRank(inv[j])
            /\ "HuggingFace" \in Range(inv) => GeminiAttemptFailed
            /\ "Simulated" \in Range(inv) => GeminiAttemptFailed /\ FallbackAttemptFailed
            /\ (last_call.result.message = SimulatedMessage /\ ~("model" \in DOMAIN last_call.result))
                  => inv[Len(inv)] = "Simulated"
            /\ "model" \in DOMAIN last_call.result =>
                  inv[Len(inv)] = last_call.result.model

C1_Witness ==
    /\ calls > 0
    /\ last_call.invoked = <<"Gemini", "HuggingFace", "Simulated">>
    /\ last_call.result.message = SimulatedMessage

\* C2: when a broadcast task has run to its end, a chat_response message with
\* the task's content and model name has been sent to every socket that was
\* registered for the task's user when the broadcast started, and every send
\* went to a socket registered, as it was sent, under the task's user only.
C2_BroadcastReachesAll ==
    /\ \A i \in 1..Len(tasks) :
          tasks[i].state \in {"done", "crashed"} =>
              \A ws \in tasks[i].registered :
                  \E r \in sent_log :
                      /\ r.socket = ws /\ r.task = i /\ r.type = "chat_response"
                      /\ r.content = tasks[i].content /\ r.model = tasks[i].model
    /\ \A r \in sent_log : r.registered_under = {tasks[r.task].user}

\* C3: a generate_response call for user u builds its prompt from the history
\* stored under u alone and leaves the history of every other user as it was.
C3_HistoryFrame ==
    [][calls' # calls =>
          LET u == last_call'.user
          IN  /\ \A v \in UserIds \ {u} :
                    /\ (v \in DOMAIN conversation_history') = (v \in DOMAIN conversation_history)
                    /\ v \in DOMAIN conversation_history =>
                          conversation_history'[v] = conversation_history[v]
              /\ u \in DOMAIN conversation_history'
              /\ api_key # PlaceholderKey =>
                    last_call'.prompt =
                       ChatHistory(IF u \in DOMAIN conversation_history
                                   THEN conversation_history[u] ELSE <<>>)
    ]_vars

C3_Witness ==
    /\ calls > 0
    /\ DOMAIN conversation_history = UserIds
    /\ \A u \in UserIds : Len(conversation_history[u]) >= 2
    /\ Len(last_call.prompt) >= 2

\* C4: every history only grows at its end; a call that gets content from
\* Gemini or the fallback model appends exactly the question and then the
\* answer to its user's history, a call answered by the simulated response
\* appends nothing, so every history is a sequence of question/answer pairs.
C4_AppendOnly ==
    [][/\ \A u \in DOMAIN conversation_history :
             /\ u \in DOMAIN conversation_history'
             /\ IsPrefix(conversation_history[u], conversation_history'[u])
       /\ calls' # calls =>
             LET u   == last_call'.user
                 old == IF u \in DOMAIN conversation_history
                        THEN conversation_history[u] ELSE <<>>
                 new == conversation_history'[u]
             IN  IF "Simulated" \in Range(last_call'.invoked)
                 THEN new = old
                 ELSE /\ Len(new) = Len(old) + 2
                      /\ new[Len(old) + 1].type = "user"
                      /\ new[Len(old) + 1].content = last_call'.question
                      /\ new[Len(old) + 2].type = "assistant"
                      /\ new[Len(old) + 2].content =
                            (IF api_key # PlaceholderKey /\ last_call'.gemini.outcome = "ok"
                             THEN last_call'.gemini.text ELSE last_call'.fallback.text)
    ]_vars

C4_Witness ==
    \E u \in DOMAIN conversation_history :
        /\ Len(conversation_history[u]) = 4
        /\ conversation_history[u][1].content # conversation_history[u][3].content
        /\ conversation_history[u][2].model # conversation_history[u][4].model

\* C5: generate_response never lets an exception escape; whatever the Gemini
\* call, the fallback call and the scheduling of the broadcast do, it returns
\* a dictionary with status success or error, a message and a timestamp.
C5_AlwaysReturnsDict ==
    calls > 0 =>
        /\ ~last_call.raised
        /\ last_call.result.status \in {"success", "error"}
        /\ {"message", "timestamp"} \subseteq DOMAIN last_call.result

C5_Witness ==
    /\ calls > 0
    /\ ~last_call.loop
    /\ last_call.result.status = "error"

\* the questions of a module's quiz, looked up in the library
QuestionsOf(course_id, module_id) ==
    LET ms == courses[course_id]
    IN  ms[CHOOSE i \in 1..Len(ms) : ms[i].id = module_id].quiz.questions

\* C6: a scored submission reports as correct_answers the number of quiz
\* questions answered with their correct_answer (unanswered questions and
\* answers to unknown ids count for nothing), as total_questions the number
\* of questions, a score of correct_answers / total_questions * 100, and
\* passed exactly when the score is at least 70.
C6_QuizScore ==
    (last_quiz # NoCall /\ last_quiz.raised = None) =>
        LET qs == QuestionsOf(last_quiz.course_id, last_quiz.module_id)
            a  == last_quiz.answers
            r  == last_quiz.result
        IN  /\ r.correct_answers =
                  Cardinality({i \in 1..Len(qs) :
                                  /\ qs[i].id \in DOMAIN a
                                  /\ a[qs[i].id] = qs[i].correct_answer})
            /\ r.total_questions = Len(qs)
            /\ r.score * r.total_questions = r.correct_answers * 100
            /\ r.passed = (r.score >= 70)

C6_Witness ==
    /\ last_quiz # NoCall /\ last_quiz.raised = None
    /\ last_quiz.result.correct_answers = 1
    /\ last_quiz.result.score = 50
    /\ ~last_quiz.result.passed
    /\ "q9" \in DOMAIN last_quiz.answers
    /\ DOMAIN last_quiz.answers # {"q1", "q2", "q9"}

\* a is a better score than b: higher, or as high and faster
Better(a, b) ==
    a.score > b.score \/ (a.score = b.score /\ a.completion_time < b.completion_time)

CountIn(list, e) == Cardinality({i \in 1..Len(list) : list[i] = e})

SavedCount(u, e) ==
    IF u \in DOMAIN all_saved /\ e \in DOMAIN all_saved[u] THEN all_saved[u][e] ELSE 0

SavedEntries(u) == IF u \in DOMAIN all_saved THEN DOMAIN all_saved[u] ELSE {}

Min(a, b) == IF a <= b THEN a ELSE b

\* list holds the best n of the scores saved by u: nothing but saved scores,
\* and no saved score missing from it is better than one it holds
HoldsBestOf(list, u, n) ==
    /\ Len(list) = Min(n, SavedBy(u))
    /\ \A e \in Range(list) : CountIn(list, e) <= SavedCount(u, e)
    /\ \A e \in SavedEntries(u) :
          CountIn(list, e) < SavedCount(u, e) => \A i \in 1..Len(list) : ~Better(e, list[i])

SortedBestFirst(list) == \A i, j \in 1..Len(list) : i < j => ~Better(list[j], list[i])

\* C7: after any sequence of save_game_score calls every player's stored
\* list has at most 10 entries, is sorted by score descending with ties
\* broken by the smaller completion_time, and consists of the 10 best of all
\* scores ever saved for the player.
C7_TopTenKept ==
    /\ DOMAIN game_scores = DOMAIN all_saved
    /\ \A u \in DOMAIN game_scores :
          /\ Len(game_scores[u]) <= 10
          /\ SortedBestFirst(game_scores[u])
          /\ HoldsBestOf(game_scores[u], u, 10)

C7_Witness ==
    \E u \in DOMAIN game_scores :
        /\ SavedBy(u) = 12
        /\ Len(game_scores[u]) = 10
        /\ game_scores[u][1].score # game_scores[u][10].score
        /\ \E i \in 1..9 : /\ game_scores[u][i].score = game_scores[u][i + 1].score
                           /\ game_scores[u][i] # game_scores[u][i + 1]
        /\ \E e \in SavedEntries(u) : e \notin Range(game_scores[u])

\* C8 as stated: every score saved for a player is present in the list that
\* get_user_scores returns for the player, and the list is empty for a
\* player who never saved one.
C8_AllScoresReturned ==
    \A u \in 1..2 :
        /\ \A e \in SavedEntries(u) : e \in Range(get_user_scores(u))
        /\ SavedBy(u) = 0 => get_user_scores(u) = <<>>

\* C8 amended: get_user_scores returns the player's stored scores, which are
\* all the scores saved for the player while at most 10 were saved and the
\* 10 best of them afterwards; the list is empty for a player who never
\* saved one.
C8_StoredScoresReturned ==
    \A u \in 1..2 :
        /\ SavedBy(u) = 0 => get_user_scores(u) = <<>>
        /\ SavedBy(u) <= 10 =>
              \A e \in SavedEntries(u) : CountIn(get_user_scores(u), e) = SavedCount(u, e)
        /\ HoldsBestOf(get_user_scores(u), u, 10)

C8_Witness ==
    /\ SavedBy(1) = 11
    /\ \E e \in SavedEntries(1) : e \notin Range(get_user_scores(1))
    /\ SavedBy(2) = 0
    /\ get_user_scores(2) = <<>>

\* C9: the leaderboard has at most 10 entries and at most one per player;
\* each entry is its player's best saved score; the entries are sorted by
\* score descending, then completion_time ascending; no player left out has
\* a better best score than a player listed.
C9_Leaderboard ==
    LET board  == get_leaderboard
        listed == {board[i].user_id : i \in 1..Len(board)}
        AsEntry(r) == Entry(r.score, r.completion_time)
    IN  /\ Len(board) = Min(10, Cardinality({u \in DOMAIN all_saved : SavedBy(u) > 0}))
        /\ \A i, j \in 1..Len(board) : i # j => board[i].user_id # board[j].user_id
        /\ \A i \in 1..Len(board) :
              /\ AsEntry(board[i]) \in SavedEntries(board[i].user_id)
              /\ \A e \in SavedEntries(board[i].user_id) : ~Better(e, AsEntry(board[i]))
        /\ SortedBestFirst([i \in 1..Len(board) |-> AsEntry(board[i])])
        /\ \A u \in (DOMAIN all_saved) \ listed :
              \A e \in SavedEntries(u), i \in 1..Len(board) : ~Better(e, AsEntry(board[i]))

C9_Witness ==
    LET board == get_leaderboard
    IN  /\ Cardinality(DOMAIN game_scores) = 11
        /\ Len(board) = 10
        /\ \E i \in 1..Len(board) : board[i].user_id = 11
        /\ \E i \in 1..Len(board) :
              /\ Len(game_scores[board[i].user_id]) = 2
              /\ game_scores[board[i].user_id][1] # game_scores[board[i].user_id][2]

\* a step in which a get_market_data call runs up to its await or its return
CallStarts(p) ==
    /\ pc[p] = "idle"
    /\ last_market' # last_market
    /\ last_market'.caller = p
    /\ last_market'.step = "fetch" \/ ~last_market'.fetched

\* C10: a get_market_data call fetches upstream data only when, as it tests
\* the cache, no update has happened yet or the last update is more than 5
\* minutes old, and it always fetches then; stocks_cache and last_update are
\* replaced only by a call that fetched; a call made within 5 minutes of the
\* last update returns the cached value, fetches nothing and leaves
\* stocks_cache and last_update unchanged.
C10_CacheRefreshedWhenStale ==
    [][/\ \A p \in Callers :
             CallStarts(p) =>
                 IF last_update = <<>> \/ now - last_update[1] > 5
                 THEN /\ pc'[p] = "fetching"
                      /\ fetches' = Append(fetches, [caller |-> p, at |-> now])
                 ELSE /\ pc'[p] = "idle"
                      /\ last_market'.step = "return"
                      /\ last_market'.value = stocks_cache
                      /\ UNCHANGED <<stocks_cache, last_update, fetches>>
       /\ fetches' # fetches => \E p \in Callers : CallStarts(p)
       /\ (stocks_cache' # stocks_cache \/ last_update' # last_update) =>
             \E p \in Callers :
                 /\ pc[p] = "fetching" /\ pc'[p] = "idle"
                 /\ \E i \in 1..Len(fetches) : fetches[i].caller = p
                 /\ last_update' = <<now>>
                 /\ last_market'.value = stocks_cache'
    ]_vars

C10_Witness ==
    /\ Len(fetches) >= 2
    /\ last_market # NoCall
    /\ last_market.step = "return"
    /\ ~last_market.fetched
    /\ last_update # <<>>
    /\ last_market.at - last_update[1] = 5
    /\ last_market.value = stocks_cache
    /\ \E i \in 1..Len(fetches) :
          fetches[i].at > 5 /\ \A j \in 1..Len(fetches) : j < i => fetches[j].at + 5 < fetches[i].at

\* the API failed for a fetch: the request raised, the status was not 200,
\* the body was no JSON or had no 'Global Quote', or a quote field was a text
\* that is not a number
ApiFailed(reply) ==
    \/ reply.raises
    \/ reply.status # 200
    \/ reply.json = <<>>
    \/ "Global Quote" \notin DOMAIN reply.json[1]
    \/ LET quote == reply.json[1]["Global Quote"]
       IN  \/ \E k \in DOMAIN quote \ {"10. change percent"} : quote[k] \in {"n/a", "7%"}
           \/ /\ "10. change percent" \in DOMAIN quote
              /\ quote["10. change percent"] = "n/a"

\* C11: fetch_stock_data returns a stock record for the requested symbol on
\* every path, the simulated one when the API failed (request exception,
\* non-200 status, body without 'Global Quote', unparsable quote field), and
\* never None, so every element get_market_data aggregates has a 'change' and
\* a 'volume' field and the summary is computed without an error.
C11_FetchAlwaysReturnsRecord ==
    /\ last_fetch # NoCall =>
          /\ last_fetch.result # <<>>
          /\ last_fetch.result[1].symbol = last_fetch.symbol
          /\ {"change", "volume"} \subseteq DOMAIN last_fetch.result[1]
          /\ ApiFailed(last_fetch.reply) =>
                /\ DOMAIN last_fetch.result[1] =
                      {"symbol", "name", "price", "change", "volume", "chart_data"}
                /\ last_fetch.result[1].change = last_fetch.rnd.change_percent
                /\ last_fetch.result[1].volume = last_fetch.rnd.volume
          /\ ~ApiFailed(last_fetch.reply) =>
                DOMAIN last_fetch.result[1] =
                    {"symbol", "price", "change", "change_percent", "volume"}
    /\ \A i \in 1..Len(stock_data) :
          /\ stock_data[i] # <<>>
          /\ {"change", "volume"} \subseteq DOMAIN stock_data[i][1]
          /\ stock_data[i][1].symbol = TrackedSymbols[i]
    /\ market_summary # NoCall =>
          /\ ~market_summary.raised
          /\ Len(market_summary.stocks) = MaxSymbols
          /\ \A i \in 1..Len(market_summary.stocks) :
                {"change", "volume"} \subseteq DOMAIN market_summary.stocks[i][1]

\* a round has been summarised whose first quote had an unparsable field and
\* whose second quote was parsed; the last fetch met a body without a quote
C11_Witness ==
    /\ market_summary # NoCall
    /\ ~market_summary.raised
    /\ "chart_data" \in DOMAIN market_summary.stocks[1][1]
    /\ "change_percent" \in DOMAIN market_summary.stocks[2][1]
    /\ market_summary.advancing_stocks = 1
    /\ last_fetch # NoCall
    /\ ~last_fetch.reply.raises
    /\ last_fetch.reply.status = 200
    /\ last_fetch.reply.json # <<>>
    /\ "Global Quote" \in DOMAIN last_fetch.reply.json[1]
    /\ "06. volume" \in DOMAIN last_fetch.reply.json[1]["Global Quote"]
    /\ last_fetch.reply.json[1]["Global Quote"]["06. volume"] = "n/a"
    /\ last_fetch.symbol = "AAPL"

ConsultationFields == {"name", "email", "date", "time", "topic"}

\* C12: once schedule_consultation has returned consultation_id c, every
\* later get_consultation(c) returns the record with the submitted name,
\* email, date, time and topic and status 'scheduled' (nothing removes or
\* alters a stored consultation), and get_consultation with an id that
\* schedule_consultation never returned raises 404 'Consultation not found'.
C12_ConsultationRoundTrip ==
    /\ \A c \in DOMAIN returned :
          /\ c \in DOMAIN consultations
          /\ consultations[c].status = "scheduled"
          /\ \A k \in ConsultationFields : consultations[c][k] = Get(returned[c], k)
    /\ (last_consult # NoCall /\ last_consult.op = "get") =>
          IF last_consult.id \in DOMAIN returned
          THEN /\ last_consult.response.status = 200
               /\ last_consult.response.body.status = "scheduled"
               /\ \A k \in ConsultationFields :
                     last_consult.response.body[k] = Get(returned[last_consult.id], k)
          ELSE /\ last_consult.response.status = 404
               /\ last_consult.response.detail = "Consultation not found"

\* the course context can be processed: it is a JSON object whose modules
\* carry no null content
ContextProcessable(course_context) ==
    /\ course_context.json = "object"
    /\ \A i \in 1..Len(course_context.modules) :
          "content" \in DOMAIN course_context.modules[i] =>
              course_context.modules[i]["content"] # <<>>

\* C13: get_response never raises; a query that is not finance-related gets
\* the fixed 'I can only answer questions related to finance' reply with
\* relevant False whatever the course context is; a finance-related query
\* whose processing fails gets the fixed apology with relevant False; relevant
\* is True only for a finance-related query whose processing succeeded.
C13_KeywordGate ==
    last_tutor # NoCall =>
        LET r == last_tutor.result
            finance == is_finance_related(last_tutor.query)
            fine == ContextProcessable(last_tutor.course_context)
        IN  /\ r.raised = None
            /\ ~finance => r.response = Reply(Refusal) /\ ~r.relevant
            /\ (finance /\ ~fine) => r.response = Reply(Apology) /\ ~r.relevant
            /\ r.relevant <=> (finance /\ fine)
            /\ r.relevant => r.response.text \notin {Refusal, Apology}

\* a finance-related query met a context with a null content, after which the
\* tutor is still asked
C13_Witness ==
    /\ last_tutor # NoCall
    /\ is_finance_related(last_tutor.query)
    /\ last_tutor.course_context.json = "object"
    /\ ~ContextProcessable(last_tutor.course_context)
    /\ last_tutor.result.response = Reply(Apology)

C13_WitnessRefused ==
    /\ last_tutor # NoCall
    /\ ~is_finance_related(last_tutor.query)
    /\ last_tutor.course_context.json = "invalid"
    /\ last_tutor.result.response = Reply(Refusal)

\* the question types in the order they are tested, with the topics of each
TypeOrder ==
    <<[phrase |-> <<"w", "h", "a", "t", " ", "i", "s">>, topics |-> definitions],
      [phrase |-> <<"h", "o", "w", " ", "t", "o">>, topics |-> how_to_guides],
      [phrase |-> <<"e", "x", "p", "l", "a", "i", "n">>, topics |-> explanations],
      [phrase |-> <<"d", "i", "f", "f", "e", "r", "e", "n", "c", "e", " ",
                    "b", "e", "t", "w", "e", "e", "n">>, topics |-> comparisons]>>

\* the contents of the context in which a word of the lowered query occurs
Relevant(call) ==
    LET q == lower(call.query)
    IN  {i \in 1..Len(call.course_context.modules) :
            /\ "content" \in DOMAIN call.course_context.modules[i]
            /\ \E w \in Range(split(q)) :
                  In(w, lower(call.course_context.modules[i]["content"][1]))}

\* the reply when no phrase or topic matches
FallsBack(call) ==
    LET r == call.result.response
    IN  IF Relevant(call) # {}
        THEN /\ r.text = MaterialPrefix
             /\ \A i \in Relevant(call) :
                   In(call.course_context.modules[i]["content"][1], r.material)
        ELSE /\ r.text \in {NeedMore, NeedMoreAboutFinance}
             /\ r.material = <<>>

\* the dispatch the claim describes, for a way of telling that a topic is
\* contained in the query
Dispatched(call, Contained(_, _)) ==
    LET q == lower(call.query)
        r == call.result.response
    IN  /\ \A i \in 1..Len(TypeOrder) :
              (In(TypeOrder[i].phrase, q) /\ \A j \in 1..(i - 1) : ~In(TypeOrder[j].phrase, q)) =>
                  LET topics == TypeOrder[i].topics
                  IN  /\ \A k \in 1..Len(topics) :
                            (/\ Contained(topics[k].term, q)
                             /\ \A l \in 1..(k - 1) : ~Contained(topics[l].term, q)) =>
                                r = Reply(topics[k].text)
                      /\ (\A k \in 1..Len(topics) : ~Contained(topics[k].term, q)) =>
                            FallsBack(call)
        /\ (\A i \in 1..Len(TypeOrder) : ~In(TypeOrder[i].phrase, q)) => FallsBack(call)

\* every word of the topic occurs in the query
WordsContained(term, q) == \A w \in Range(split(term)) : In(w, q)

\* C19 as stated: the phrases 'what is', 'how to', 'explain', 'difference
\* between' are tested in that order and the first one contained in the query
\* selects the handler; the handler returns the canned text of the first of
\* its topics contained in the query; when no phrase or topic matches, the
\* reply is the course-material text if relevant content exists and a 'need
\* more specific information' reply otherwise.
C19_DispatchTopicContained ==
    (last_tutor # NoCall /\ last_tutor.result.raised = None /\ last_tutor.result.relevant) =>
        Dispatched(last_tutor, In)

\* C19 amended: as above, where a topic of the comparison handler counts as
\* contained when each of its words occurs in the query, in any place; the
\* topics of the other three handlers are single phrases, for which this is
\* containment of the phrase.
C19_DispatchInOrder ==
    (last_tutor # NoCall /\ last_tutor.result.raised = None /\ last_tutor.result.relevant) =>
        Dispatched(last_tutor,
                   LAMBDA term, q : IF term \in {comparisons[k].term : k \in 1..Len(comparisons)}
                                    THEN WordsContained(term, q) ELSE In(term, q))

\* a comparison was asked for with the two words of the topic apart, and the
\* comparison of stocks and bonds was the reply
C19_Witness ==
    /\ last_tutor # NoCall
    /\ last_tutor.result.raised = None
    /\ last_tutor.result.relevant
    /\ In(TypeOrder[4].phrase, lower(last_tutor.query))
    /\ \A j \in 1..3 : ~In(TypeOrder[j].phrase, lower(last_tutor.query))
    /\ ~In(comparisons[1].term, lower(last_tutor.query))
    /\ last_tutor.result.response = Reply(comparisons[1].text)

\* a query with two phrases went to the handler of the earlier phrase
C19_WitnessOrder ==
    /\ last_tutor # NoCall
    /\ last_tutor.result.raised = None
    /\ last_tutor.result.relevant
    /\ In(TypeOrder[2].phrase, lower(last_tutor.query))
    /\ In(TypeOrder[3].phrase, lower(last_tutor.query))
    /\ last_tutor.result.response = Reply(how_to_guides[2].text)

\* C14: when the AI service returns a result with status 'error', POST
\* /chat/tutor responds with HTTP 500 whose detail is the service's error
\* message; when it returns status 'success', the simulated response
\* included, the endpoint responds with the message and the service's
\* timestamp.
C14_ErrorDetailPassedOn ==
    (last_chat # NoCall /\ last_chat.called) =>
        /\ last_call.result.status = "error" =>
              /\ last_chat.response.status_code = 500
              /\ last_chat.response.detail = last_call.result.message
        /\ last_call.result.status = "success" =>
              /\ last_chat.response.status_code = 200
              /\ last_chat.response.response = last_call.result.message
              /\ last_chat.response.timestamp = last_call.result.timestamp

\* the part of C14 about a successful service call
C14_SuccessPassedOn ==
    (last_chat # NoCall /\ last_chat.called /\ last_call.result.status = "success") =>
        /\ last_chat.response.status_code = 200
        /\ last_chat.response.response = last_call.result.message
        /\ last_chat.response.timestamp = last_call.result.timestamp

\* the user id a member of a group stands for
MemberId(member) == IF "user_id" \in DOMAIN member THEN member.user_id ELSE member.id

\* a step that is a join_study_group call of user u for a group it finds
Joins(g, u) ==
    /\ last_group' # last_group
    /\ last_group'.op = "join_study_group"
    /\ last_group'.group_id = g
    /\ last_group'.user_id = u
    /\ g \in DOMAIN study_groups

\* C15: after any sequence of create_study_group, create_group and
\* join_study_group calls each user id appears at most once among the members
\* of a group, and a join_study_group by a user who already belongs to the
\* group, as its creator or by an earlier join, leaves the member list
\* unchanged.
C15_JoinIdempotent ==
    [][/\ \A g \in DOMAIN study_groups' :
             \A i, j \in 1..Len(study_groups'[g].members) :
                 i # j => MemberId(study_groups'[g].members[i]) # MemberId(study_groups'[g].members[j])
       /\ \A g \in GroupIds, u \in UserIds :
             (/\ Joins(g, u)
              /\ \E i \in 1..Len(study_groups[g].members) : MemberId(study_groups[g].members[i]) = u)
                 => study_groups'[g].members = study_groups[g].members
    ]_vars

\* C16: add_group_discussion appends the new discussion to the discussions of
\* every group present in study_groups, whichever operation created the
\* group, and returns it; for a group id that is not present it returns None
\* and changes nothing.
C16_DiscussionAdded ==
    [][(last_group' # last_group /\ last_group'.op = "add_group_discussion") =>
          LET g == last_group'.group_id
          IN  IF g \in DOMAIN study_groups
              THEN /\ last_group'.raised = None
                   /\ last_group'.result # <<>>
                   /\ last_group'.result[1].title = last_group'.data.title
                   /\ "discussions" \in DOMAIN study_groups'[g]
                   /\ study_groups'[g].discussions # <<>>
                   /\ study_groups'[g].discussions[Len(study_groups'[g].discussions)]
                         = last_group'.result[1]
              ELSE /\ last_group'.raised = None
                   /\ last_group'.result = <<>>
                   /\ UNCHANGED <<study_groups, groups_file>>
    ]_vars

\* C17: whenever save_note returns success True the note has been written to
\* the notes store, so that after the call the persisted notes equal the notes
\* in memory and a reload of the store yields the same list; when it returns
\* success False the notes in memory are unchanged.
C17_SavedNoteIsPersisted ==
    [][last_note' # last_note =>
          IF last_note'.result.success
          THEN /\ notes'.items # <<>>
               /\ notes'.items[Len(notes'.items)] = last_note'.result.note
               /\ notes_file'.document = "json"
               /\ notes_file'.value = notes'
               /\ _load_json(notes_file', List(<<>>)) = notes'
          ELSE notes' = notes
    ]_vars

\* the fetch rounds of caller p, and the round it is waiting for
RoundsOf(p) == {i \in 1..Len(fetches) : fetches[i].caller = p}
InProgress == {i \in 1..Len(fetches) :
                  /\ pc[fetches[i].caller] = "fetching"
                  /\ \A j \in RoundsOf(fetches[i].caller) : j <= i}

\* C18 as stated: when get_market_data calls overlap while the cache is
\* missing or stale only one of them fetches the upstream quotes: at most one
\* refresh is in progress at any time and at most one refresh happens per
\* 5-minute interval.
C18_SingleRefresh ==
    /\ Cardinality({p \in Callers : pc[p] = "fetching"}) <= 1
    /\ \A i, j \in 1..Len(fetches) :
          i < j => fetches[j].at - fetches[i].at >= UpdateInterval

\* C18 amended: overlapping calls are not coordinated, each call that finds
\* the cache missing or stale runs its own refresh; a refresh in progress was
\* started when no refresh had completed during the 5 minutes before, and a
\* completing refresh replaces the cache and last_update, so that the cache
\* is never older than the start of a refresh that has completed.
C18_RefreshPerStaleCall ==
    /\ \A i \in InProgress :
          \/ last_update = <<>>
          \/ last_update[1] + UpdateInterval < fetches[i].at
          \/ last_update[1] >= fetches[i].at
    /\ \A i \in 1..Len(fetches) :
          i \notin InProgress =>
              /\ last_update # <<>>
              /\ last_update[1] >= fetches[i].at
              /\ stocks_cache.timestamp = last_update[1]
    /\ Cardinality(InProgress) = Cardinality({p \in Callers : pc[p] = "fetching"})

\* two calls found the cache missing at the same time and both fetched; one
\* refresh has completed while the other is still in progress
C18_Witness ==
    /\ \E i, j \in 1..Len(fetches) :
          /\ i < j
          /\ fetches[i].caller # fetches[j].caller
          /\ fetches[j].at - fetches[i].at < UpdateInterval
          /\ j \in InProgress
          /\ i \notin InProgress
    /\ last_update # <<>>
    /\ \E j \in InProgress : last_update[1] > fetches[j].at

====
